---- MODULE Spec2Model ----
(***************************************************************************)
(* Report lifecycle, assignment/bidding workflow and audit trail of the    *)
(* JanMarg backend (src/routes/admin.js, the report routes appended to     *)
(* src/LOGGING.md, src/utils/logger.js, src/utils/auth.js).                *)
(*                                                                         *)
(* The persistent store is the state; one action per request handler.      *)
(* The accept-bid and change-status handlers are also split at their       *)
(* awaits (one step per store call) so that two requests can interleave    *)
(* and a store call can throw in the middle of the handler.                *)
(***************************************************************************)
EXTENDS Integers, Sequences, FiniteSets, TLC

(***************************************************************************)
(* Bounds of the model.                                                    *)
(***************************************************************************)
MaxReports == 2
MaxNewReports == 1
MaxProofs == 2
MaxBids == 3
MaxContractors == 2
MaxTime == 4
ShortRun == 2

(***************************************************************************)
(* Program constants.                                                      *)
(***************************************************************************)
MinJustification == 10
MaxSeverity == 5
\* The cap of the urgency score and of the upvotes counted in it.
MaxUrgency == 100
MaxEngagement == 5

\* The reports filed before the first request, and the ids a report can get.
ReportIds == 1..MaxReports
AllReportIds == 1..(MaxReports + MaxNewReports)
BidIds == 1..MaxBids
ContractorIds == 1..MaxContractors
\* Two requests at most are served at the same time.
Slots == {1, 2}

\* An optional value (undefined / absent in the request body) is the empty
\* set, a present value v is {v}.
None == {}
Some(v) == {v}
Get(o) == CHOOSE v \in o : TRUE

validStatuses ==
  {"OPEN", "DUPLICATE", "MERGED", "VALIDATED", "IN_BIDDING", "ASSIGNED",
   "IN_PROGRESS", "PENDING_CITIZEN_REVIEW", "COMPLETED", "VERIFIED",
   "CLOSED", "REJECTED", "AUTO_CLOSED"}

(***************************************************************************)
(* Identity: the fixed credential list and the role check.                 *)
(***************************************************************************)
FAKE_USERS == {"admin", "superAdmin", "moderator", "citizen1"}

RoleOf(u) ==
  CASE u = "admin" -> "ADMIN"
    [] u = "superAdmin" -> "SUPERADMIN"
    [] u = "moderator" -> "MODERATOR"
    [] u = "citizen1" -> "CITIZEN"
    [] OTHER -> "NONE"

\* The role test left out.
hasRequiredRoleAny(userRole, requiredRoles) == TRUE

hasRequiredRole(userRole, requiredRoles) ==
  requiredRoles = {} \/ userRole \in requiredRoles

\* The response code of the authenticate middleware, 0 when it calls next().
\* A caller outside FAKE_USERS carries no token or an unknown one.
authenticate(u, requiredRoles) ==
  IF u \notin FAKE_USERS THEN 401
  ELSE IF ~hasRequiredRole(RoleOf(u), requiredRoles) THEN 403
  ELSE 0

(***************************************************************************)
(* Justification texts are sequences of characters; " " is whitespace.     *)
(***************************************************************************)
RECURSIVE TrimStart(_)
TrimStart(s) ==
  IF s = <<>> THEN s
  ELSE IF Head(s) = " " THEN TrimStart(Tail(s)) ELSE s

RECURSIVE TrimEnd(_)
TrimEnd(s) ==
  IF s = <<>> THEN s
  ELSE IF s[Len(s)] = " " THEN TrimEnd(SubSeq(s, 1, Len(s) - 1)) ELSE s

trim(s) == TrimEnd(TrimStart(s))

\* The length check without the trim.
JustificationMissingUntrimmed(j) ==
  \/ j = None
  \/ Get(j) = <<>>
  \/ Len(Get(j)) < MinJustification

\* !justification || justification.trim().length < 10
JustificationMissing(j) ==
  \/ j = None
  \/ Get(j) = <<>>
  \/ Len(trim(Get(j))) < MinJustification

Rep(c, n) == [i \in 1..n |-> c]

\* Ten letters: the shortest accepted justification.
GoodJust == Some(Rep("a", MinJustification))

VARIABLES
  reports,      \* report table:      id -> row
  bids,         \* bid table:         id -> row
  contractors,  \* contractor table:  id -> row
  assignments,  \* assignment table:  sequence of rows, id = index
  proofs,       \* completionProof table: sequence of rows, id = index
  history,      \* reportHistory table (append order)
  adminLog,     \* adminLog table (append order)
  auditLog,     \* auditLog table, written by logReportChange
  modActions,   \* moderatorAction table
  reqs,         \* accept-bid requests in flight: slot -> request
  pre,          \* the store as the latest accept-bid request found it
  last,         \* the latest response sent
  now           \* the clock

store == <<reports, bids, contractors, assignments, proofs,
           history, adminLog, auditLog, modActions>>
entities == <<reports, bids, contractors, assignments, proofs>>
logs == <<history, adminLog, auditLog, modActions>>
vars == <<reports, bids, contractors, assignments, proofs,
          history, adminLog, auditLog, modActions, reqs, pre, last, now>>

\* upvotedBy holds the users of the report's reportReaction rows of type
\* UPVOTE, subscribedBy the users of its reportSubscription rows.  title and
\* description are "t0" and "d0" as filed.
NoReport ==
  [exists |-> FALSE, status |-> "OPEN", severity |-> 1, reporterId |-> "citizen1",
   title |-> "t0", description |-> "d0",
   isSpam |-> FALSE, isSensitive |-> FALSE, isDuplicate |-> FALSE,
   duplicateOfId |-> 0, noOfDuplicates |-> 0, departmentId |-> 0,
   closedAt |-> 0, completedAt |-> 0, upvotes |-> 0, upvotedBy |-> {},
   subscribedBy |-> {}]

NewReport(sev, owner) ==
  [NoReport EXCEPT !.exists = TRUE, !.severity = sev, !.reporterId = owner]

\* The status read after the update, recorded as the old status.
HistoryEntryReadAfter(rid, actor, action, old, new, just) ==
  [reportId |-> rid, actorId |-> actor, action |-> action,
   oldStatus |-> new, newStatus |-> new, justification |-> just,
   createdAt |-> now]

\* createdAt is set by the store when the row is written.
HistoryEntry(rid, actor, action, old, new, just) ==
  [reportId |-> rid, actorId |-> actor, action |-> action,
   oldStatus |-> old, newStatus |-> new, justification |-> just,
   createdAt |-> now]

AdminLogEntry(actor, etype, eid, atype, just, old, new) ==
  [adminId |-> actor, adminRole |-> RoleOf(actor), entityType |-> etype,
   entityId |-> eid, actionType |-> atype, justificationMessage |-> just,
   oldValue |-> old, newValue |-> new]

\* A response: the status code and which error message it carries, with the
\* caller, the :id parameter and the justification of the request it answers;
\* target is the status a change-status request asked for, scores the
\* priority score of each report in the data of an admin listing or detail
\* (the urgency score in a ward listing), ages the days since each report
\* of a ward listing was created, when the listing was served, bidId and
\* deadline the bid and the optional deadline of an accept-bid request.
Response(op, code, error, u, id, just) ==
  [op |-> op, code |-> code, error |-> error, user |-> u, id |-> id,
   just |-> just, target |-> "none", scores |-> <<>>, ages |-> <<>>,
   bidId |-> 0, deadline |-> None]

NoResponse == Response("none", 0, "", "nobody", 0, None)

ErrorOf(code) ==
  CASE code = 200 -> ""
    [] code = 401 -> "AUTH"
    [] code = 403 -> "AUTH"
    [] code = 404 -> "NOT_FOUND"
    [] OTHER -> "FAILED"

\* An assignment created without a bid and without a deadline.
NewAssignment(id, contractorId, u, bidId) ==
  [reportId |-> id, contractorId |-> contractorId, assignedById |-> u,
   bidId |-> bidId, status |-> "ASSIGNED", cancelReason |-> None,
   completedAt |-> 0, agreedCost |-> None, deadlineAt |-> None]

\* Without the uniqueness of the report of an assignment.
AssignmentConflictUnchecked(id) == FALSE

\* report.assignment is a to-one relation (it is filtered, included and
\* created as a single row): the report of an assignment is unique in the
\* store, which refuses to create a second assignment row for a report.
AssignmentConflict(id) ==
  \E a \in DOMAIN assignments : assignments[a].reportId = id

IdleReq ==
  [op |-> "none", pc |-> "idle", user |-> "nobody", id |-> 0, bidId |-> 0,
   just |-> None, oldStatus |-> "OPEN", contractorId |-> 0, asgId |-> 0,
   code |-> 0, status |-> "none", deadline |-> None]

\* The bids stand on the reports before any of them is accepted: the last
\* bid is on the last report, the others compete for report 1.
BidReport(b) == IF b = MaxBids THEN MaxReports ELSE 1
BidContractor(b) == ((b - 1) % MaxContractors) + 1
\* Each bid has its own cost and its own number of days, which no handler
\* changes.
BidCost(b) == 100 * b
BidDays(b) == b

NewBid(b) ==
  [reportId |-> BidReport(b), contractorId |-> BidContractor(b),
   status |-> "PENDING", proposedCost |-> BidCost(b),
   estimatedDays |-> BidDays(b)]

Init ==
  /\ now = 1
  /\ reports = [r \in AllReportIds |->
                  IF r \in ReportIds THEN NewReport(1, "citizen1") ELSE NoReport]
  /\ bids = [b \in BidIds |-> NewBid(b)]
  /\ contractors = [c \in ContractorIds |->
                      [isBlocked |-> FALSE, blockReason |-> None,
                       blockedBy |-> "nobody"]]
  /\ assignments = <<>>
  /\ proofs = <<>>
  /\ history = [r \in ReportIds |->
                  [HistoryEntry(r, "citizen1", "REPORT_CREATED", "none", "OPEN", None)
                     EXCEPT !.createdAt = 0]]
  /\ adminLog = <<>>
  /\ auditLog = <<>>
  /\ modActions = <<>>
  /\ reqs = [s \in Slots |-> IdleReq]
  /\ pre = <<>>
  /\ last = NoResponse

(***************************************************************************)
(* POST /api/admin/reports/:id/bid/assign, one step per await.             *)
(***************************************************************************)
InFlight(s) == reqs[s].pc \notin {"idle", "done"}
Quiet == \A s \in Slots : ~InFlight(s)

\* A slot is free when its request has been answered; a request takes the
\* first free slot.
FreeSlot(s) == ~InFlight(s) /\ \A t \in Slots : t < s => InFlight(t)

\* An answered request: the slot keeps which bid of which report was accepted.
Answered(r, code) ==
  IF code = 200
    THEN [IdleReq EXCEPT !.op = r.op, !.pc = "done", !.id = r.id,
                         !.bidId = r.bidId, !.code = code]
    ELSE [IdleReq EXCEPT !.op = r.op, !.pc = "done", !.code = code]

Finish(s, code) ==
  /\ reqs' = [reqs EXCEPT ![s] = Answered(reqs[s], code)]
  /\ last' = [Response(reqs[s].op, code, ErrorOf(code), reqs[s].user, reqs[s].id,
                       reqs[s].just)
                EXCEPT !.target = reqs[s].status, !.bidId = reqs[s].bidId,
                       !.deadline = reqs[s].deadline]

\* The synchronous prefix of the handler and its first read: the role check,
\* the justification check and bid.findUnique with the report included.
\* deadline is optional.
AcceptBidRequest(s, u, id, bidId, j, deadline) ==
  /\ FreeSlot(s)
  /\ now < MaxTime
  /\ now' = now + 1
  /\ pre' = entities
  /\ UNCHANGED store
  /\ LET r == [IdleReq EXCEPT !.op = "acceptBid", !.user = u, !.id = id,
                              !.bidId = bidId, !.just = j,
                              !.deadline = deadline]
         done(code, error) ==
           /\ reqs' = [reqs EXCEPT ![s] = Answered(r, code)]
           /\ last' = Response("acceptBid", code, error, u, id, j)
     IN  IF authenticate(u, {"ADMIN", "MODERATOR"}) # 0
           THEN done(authenticate(u, {"ADMIN", "MODERATOR"}), "AUTH")
         ELSE IF JustificationMissing(j) THEN done(400, "JUSTIFICATION")
         ELSE IF bidId \notin BidIds THEN done(404, "NOT_FOUND")
         ELSE IF bids[bidId].reportId # id THEN done(400, "BID_MISMATCH")
         ELSE /\ reqs' = [reqs EXCEPT ![s] =
                            [r EXCEPT !.pc = "updateBid",
                                      !.oldStatus = reports[id].status,
                                      !.contractorId = bids[bidId].contractorId]]
              /\ UNCHANGED last

\* The request of a body without deadline.
AcceptBidStart(s, u, id, bidId, j) == AcceptBidRequest(s, u, id, bidId, j, None)

\* bid.update: the chosen bid becomes ACCEPTED.
AcceptBidUpdateBid(s) ==
  /\ reqs[s].pc = "updateBid"
  /\ bids' = [bids EXCEPT ![reqs[s].bidId].status = "ACCEPTED"]
  /\ reqs' = [reqs EXCEPT ![s].pc = "createAssignment"]
  /\ UNCHANGED <<reports, contractors, assignments, proofs, logs, pre, last, now>>

\* The deadline whatever the request says.
deadlineAtEstimated(deadline, estimatedDays) == Some(now + estimatedDays)

\* deadline ? new Date(deadline) : new Date(Date.now() + estimatedDays days)
\* The clock counts days, and a deadline sent is the day it names.
deadlineAt(deadline, estimatedDays) ==
  IF deadline # None THEN deadline ELSE Some(now + estimatedDays)

\* assignment.create
AcceptBidCreateAssignment(s) ==
  /\ reqs[s].pc = "createAssignment"
  /\ ~AssignmentConflict(reqs[s].id)
  /\ assignments' = Append(assignments,
       [NewAssignment(reqs[s].id, reqs[s].contractorId, reqs[s].user, reqs[s].bidId)
          EXCEPT !.agreedCost = Some(bids[reqs[s].bidId].proposedCost),
                 !.deadlineAt = deadlineAt(reqs[s].deadline,
                                           bids[reqs[s].bidId].estimatedDays)])
  /\ reqs' = [reqs EXCEPT ![s].pc = "updateReport", ![s].asgId = Len(assignments) + 1]
  /\ UNCHANGED <<reports, bids, contractors, proofs, logs, pre, last, now>>

\* assignment.create on a report that has an assignment already: the store
\* throws, the catch block answers 500 and the bid stays ACCEPTED.
AcceptBidAssignmentRefused(s) ==
  /\ reqs[s].pc = "createAssignment"
  /\ AssignmentConflict(reqs[s].id)
  /\ Finish(s, 500)
  /\ UNCHANGED <<store, pre, now>>

\* report.update: the report becomes ASSIGNED.
AcceptBidUpdateReport(s) ==
  /\ reqs[s].pc = "updateReport"
  /\ reports[reqs[s].id].exists
  /\ reports' = [reports EXCEPT ![reqs[s].id].status = "ASSIGNED"]
  /\ reqs' = [reqs EXCEPT ![s].pc = "rejectOthers"]
  /\ UNCHANGED <<bids, contractors, assignments, proofs, logs, pre, last, now>>

\* updateMany without the "id: { not: bidId }" filter.
RejectAllBids(id, bidId) ==
  [b \in BidIds |->
     IF bids[b].reportId = id
       THEN [bids[b] EXCEPT !.status = "REJECTED"]
       ELSE bids[b]]

\* bid.updateMany where reportId = id and id != bidId
RejectOtherBids(id, bidId) ==
  [b \in BidIds |->
     IF bids[b].reportId = id /\ b # bidId
       THEN [bids[b] EXCEPT !.status = "REJECTED"]
       ELSE bids[b]]

AcceptBidRejectOthers(s) ==
  /\ reqs[s].pc = "rejectOthers"
  /\ bids' = RejectOtherBids(reqs[s].id, reqs[s].bidId)
  /\ reqs' = [reqs EXCEPT ![s].pc = "createHistory"]
  /\ UNCHANGED <<reports, contractors, assignments, proofs, logs, pre, last, now>>

\* reportHistory.create
AcceptBidCreateHistory(s) ==
  /\ reqs[s].pc = "createHistory"
  /\ history' = Append(history,
       HistoryEntry(reqs[s].id, reqs[s].user, "BID_ASSIGNED",
                    reqs[s].oldStatus, "ASSIGNED", reqs[s].just))
  /\ reqs' = [reqs EXCEPT ![s].pc = "createAdminLog"]
  /\ UNCHANGED <<entities, adminLog, auditLog, modActions, pre, last, now>>

\* adminLog.create, then the success response.
AcceptBidCreateAdminLog(s) ==
  /\ reqs[s].pc = "createAdminLog"
  /\ adminLog' = Append(adminLog,
       AdminLogEntry(reqs[s].user, "BID", reqs[s].bidId, "ASSIGNED",
                     reqs[s].just, "PENDING", "ACCEPTED"))
  /\ Finish(s, 200)
  /\ UNCHANGED <<entities, history, auditLog, modActions, pre, now>>

\* The store call the request is waiting for throws: the catch block answers
\* 500 and nothing is undone.
AcceptBidThrow(s) ==
  /\ InFlight(s)
  /\ reqs[s].op = "acceptBid"
  /\ Finish(s, 500)
  /\ UNCHANGED <<store, pre, now>>

\* The store calls of the handler, in order.
AcceptBidProgress(s) ==
  \/ AcceptBidUpdateBid(s)
  \/ AcceptBidCreateAssignment(s)
  \/ AcceptBidAssignmentRefused(s)
  \/ AcceptBidUpdateReport(s)
  \/ AcceptBidRejectOthers(s)
  \/ AcceptBidCreateHistory(s)
  \/ AcceptBidCreateAdminLog(s)

AcceptBidStep(s) == AcceptBidProgress(s) \/ AcceptBidThrow(s)

(***************************************************************************)
(* PATCH /api/admin/reports/:id/status, one step per await.                *)
(***************************************************************************)
\* The role check, the two validations and report.findUnique, which reads the
\* status the log entries will record as the old one.
ChangeStatusStart(s, u, id, status, j) ==
  /\ FreeSlot(s)
  /\ now < MaxTime
  /\ now' = now + 1
  /\ UNCHANGED <<store, pre>>
  /\ LET r == [IdleReq EXCEPT !.op = "changeStatus", !.user = u, !.id = id,
                              !.just = j, !.status = status]
         done(code, error) ==
           /\ reqs' = [reqs EXCEPT ![s] = Answered(r, code)]
           /\ last' = [Response("changeStatus", code, error, u, id, j)
                         EXCEPT !.target = status]
     IN  IF authenticate(u, {"ADMIN", "MODERATOR"}) # 0
           THEN done(authenticate(u, {"ADMIN", "MODERATOR"}), "AUTH")
         ELSE IF JustificationMissing(j) THEN done(400, "JUSTIFICATION")
         ELSE IF status \notin validStatuses THEN done(400, "INVALID_STATUS")
         ELSE IF ~reports[id].exists THEN done(404, "NOT_FOUND")
         ELSE /\ reqs' = [reqs EXCEPT ![s] =
                            [r EXCEPT !.pc = "updateStatus",
                                      !.oldStatus = reports[id].status]]
              /\ UNCHANGED last

\* report.update
ChangeStatusUpdateReport(s) ==
  /\ reqs[s].pc = "updateStatus"
  /\ reports[reqs[s].id].exists
  /\ reports' = [reports EXCEPT
                   ![reqs[s].id].status = reqs[s].status,
                   ![reqs[s].id].closedAt =
                      IF reqs[s].status = "CLOSED" THEN now ELSE @]
  /\ reqs' = [reqs EXCEPT ![s].pc = "statusHistory"]
  /\ UNCHANGED <<bids, contractors, assignments, proofs, logs, pre, last, now>>

\* reportHistory.create, with the status read at the start.
ChangeStatusCreateHistory(s) ==
  /\ reqs[s].pc = "statusHistory"
  /\ history' = Append(history,
       HistoryEntry(reqs[s].id, reqs[s].user, "STATUS_CHANGED",
                    reqs[s].oldStatus, reqs[s].status, reqs[s].just))
  /\ reqs' = [reqs EXCEPT ![s].pc = "statusAdminLog"]
  /\ UNCHANGED <<entities, adminLog, auditLog, modActions, pre, last, now>>

\* adminLog.create, then the success response.
ChangeStatusCreateAdminLog(s) ==
  /\ reqs[s].pc = "statusAdminLog"
  /\ adminLog' = Append(adminLog,
       AdminLogEntry(reqs[s].user, "REPORT", reqs[s].id, "STATUS_CHANGED",
                     reqs[s].just, reqs[s].oldStatus, reqs[s].status))
  /\ Finish(s, 200)
  /\ UNCHANGED <<entities, history, auditLog, modActions, pre, now>>

\* The store call the request is waiting for throws: the catch block answers
\* 500 and nothing is undone.
ChangeStatusThrow(s) ==
  /\ InFlight(s)
  /\ reqs[s].op = "changeStatus"
  /\ Finish(s, 500)
  /\ UNCHANGED <<store, pre, now>>

ChangeStatusProgress(s) ==
  \/ ChangeStatusUpdateReport(s)
  \/ ChangeStatusCreateHistory(s)
  \/ ChangeStatusCreateAdminLog(s)

(***************************************************************************)
(* The other handlers, one action each.  Every handler answers one request *)
(* at one tick of the clock.  The parameter f is the number of store       *)
(* writes of the handler that succeed before one throws; with f at least   *)
(* the number of writes the handler makes none throws.  A throw is caught  *)
(* by the handler's catch block, which answers 500 and undoes nothing.     *)
(***************************************************************************)
Begin ==
  /\ now < MaxTime
  /\ now' = now + 1
  /\ UNCHANGED <<reqs, pre>>

Reply(op, code, error, u, id, j) == last' = Response(op, code, error, u, id, j)

Outcome(f, writes) == IF f >= writes THEN 200 ELSE 500

\* The answer to a change-status request.
ReplyStatus(code, error, u, id, j, status) ==
  last' = [Response("changeStatus", code, error, u, id, j) EXCEPT !.target = status]

\* The handler with the test of the target status placed after report.update.
ChangeStatusValidateLate(u, id, status, j, f) ==
  /\ Begin
  /\ LET auth == authenticate(u, {"ADMIN", "MODERATOR"})
         existingReport == reports[id]
         code == IF status \notin validStatuses THEN 400 ELSE Outcome(f, 3)
         written == IF status \notin validStatuses THEN 1 ELSE f
     IN  IF auth # 0
           THEN ReplyStatus(auth, "AUTH", u, id, j, status) /\ UNCHANGED store
         ELSE IF JustificationMissing(j)
           THEN ReplyStatus(400, "JUSTIFICATION", u, id, j, status) /\ UNCHANGED store
         ELSE IF ~existingReport.exists
           THEN ReplyStatus(404, "NOT_FOUND", u, id, j, status) /\ UNCHANGED store
         ELSE /\ reports' =
                   IF written >= 1
                     THEN [reports EXCEPT
                             ![id].status = status,
                             ![id].closedAt =
                                IF status = "CLOSED" THEN now ELSE existingReport.closedAt]
                     ELSE reports
              /\ history' =
                   IF written >= 2
                     THEN Append(history,
                            HistoryEntry(id, u, "STATUS_CHANGED",
                                         existingReport.status, status, j))
                     ELSE history
              /\ adminLog' =
                   IF written >= 3
                     THEN Append(adminLog,
                            AdminLogEntry(u, "REPORT", id, "STATUS_CHANGED", j,
                                          existingReport.status, status))
                     ELSE adminLog
              /\ ReplyStatus(code, IF code = 400 THEN "INVALID_STATUS" ELSE ErrorOf(code),
                             u, id, j, status)
              /\ UNCHANGED <<bids, contractors, assignments, proofs, auditLog, modActions>>

\* PATCH /api/admin/reports/:id/status, served alone.
ChangeStatus(u, id, status, j, f) ==
  /\ Begin
  /\ LET auth == authenticate(u, {"ADMIN", "MODERATOR"})
         existingReport == reports[id]
         code == Outcome(f, 3)
     IN  IF auth # 0
           THEN ReplyStatus(auth, "AUTH", u, id, j, status) /\ UNCHANGED store
         ELSE IF JustificationMissing(j)
           THEN ReplyStatus(400, "JUSTIFICATION", u, id, j, status) /\ UNCHANGED store
         ELSE IF status \notin validStatuses
           THEN ReplyStatus(400, "INVALID_STATUS", u, id, j, status) /\ UNCHANGED store
         ELSE IF ~existingReport.exists
           THEN ReplyStatus(404, "NOT_FOUND", u, id, j, status) /\ UNCHANGED store
         ELSE /\ reports' =
                   IF f >= 1
                     THEN [reports EXCEPT
                             ![id].status = status,
                             ![id].closedAt =
                                IF status = "CLOSED" THEN now ELSE existingReport.closedAt]
                     ELSE reports
              /\ history' =
                   IF f >= 2
                     THEN Append(history,
                            HistoryEntry(id, u, "STATUS_CHANGED",
                                         existingReport.status, status, j))
                     ELSE history
              /\ adminLog' =
                   IF f >= 3
                     THEN Append(adminLog,
                            AdminLogEntry(u, "REPORT", id, "STATUS_CHANGED", j,
                                          existingReport.status, status))
                     ELSE adminLog
              /\ ReplyStatus(code, ErrorOf(code), u, id, j, status)
              /\ UNCHANGED <<bids, contractors, assignments, proofs, auditLog, modActions>>

\* PATCH /api/admin/reports/:id/assign
\* contractorId and departmentId are optional; the assignment row is created
\* by the nested write of report.update, only when a contractorId is given.
\* When the store refuses the nested create, report.update throws as a whole.
AssignReport(u, id, contractorId, departmentId, j, g) ==
  /\ Begin
  /\ LET auth == authenticate(u, {"ADMIN", "MODERATOR"})
         report == reports[id]
         f == IF contractorId # None /\ AssignmentConflict(id) THEN 0 ELSE g
         code == Outcome(f, 3)
     IN  IF auth # 0
           THEN Reply("assign", auth, "AUTH", u, id, j) /\ UNCHANGED store
         ELSE IF JustificationMissing(j)
           THEN Reply("assign", 400, "JUSTIFICATION", u, id, j) /\ UNCHANGED store
         ELSE IF ~report.exists
           THEN Reply("assign", 404, "NOT_FOUND", u, id, j) /\ UNCHANGED store
         ELSE IF contractorId # None /\ Get(contractorId) \notin ContractorIds
           THEN Reply("assign", 404, "NOT_FOUND", u, id, j) /\ UNCHANGED store
         ELSE /\ reports' =
                   IF f >= 1
                     THEN [reports EXCEPT
                             ![id].status = "ASSIGNED",
                             ![id].departmentId =
                                IF departmentId # None THEN Get(departmentId)
                                ELSE report.departmentId]
                     ELSE reports
              /\ assignments' =
                   IF f >= 1 /\ contractorId # None
                     THEN Append(assignments,
                                 NewAssignment(id, Get(contractorId), u, 0))
                     ELSE assignments
              /\ history' =
                   IF f >= 2
                     THEN Append(history,
                            HistoryEntry(id, u, "REPORT_ASSIGNED", report.status,
                                         "ASSIGNED", j))
                     ELSE history
              /\ adminLog' =
                   IF f >= 3
                     THEN Append(adminLog,
                            AdminLogEntry(u, "REPORT", id, "ASSIGNED", j,
                                          "none", "ASSIGNED"))
                     ELSE adminLog
              /\ Reply("assign", code, ErrorOf(code), u, id, j)
              /\ UNCHANGED <<bids, contractors, proofs, auditLog, modActions>>

validActions ==
  {"FLAG_SPAM", "MARK_SENSITIVE", "HIDE", "APPROVE", "MARK_DUPLICATE",
   "ESCALATE", "REJECT", "UNFLAG"}

ModeratorAction(u, id, action, just, old, new) ==
  [moderatorId |-> u, reportId |-> id, action |-> action,
   justification |-> just, oldValue |-> old, newValue |-> new]

FlagValues(r) ==
  [isSpam |-> r.isSpam, isSensitive |-> r.isSensitive, status |-> r.status,
   severity |-> r.severity]

\* POST /api/admin/reports/:id/moderate
\* isSpam, isSensitive, duplicateOfId and severity are optional.  The severity
\* sent is an integer, which parseInt returns as it is.
ModeratePost(u, id, action, j, isSpam, isSensitive, duplicateOfId, severity, f) ==
  /\ Begin
  /\ LET auth == authenticate(u, {"ADMIN", "MODERATOR"})
         report == reports[id]
         markDuplicate == action = "MARK_DUPLICATE" /\ duplicateOfId # None
         updated ==
           [report EXCEPT
              !.isSpam = IF isSpam # None THEN Get(isSpam) ELSE @,
              !.isSensitive = IF isSensitive # None THEN Get(isSensitive) ELSE @,
              !.status = IF markDuplicate THEN "DUPLICATE" ELSE @,
              !.duplicateOfId = IF markDuplicate THEN Get(duplicateOfId) ELSE @,
              !.isDuplicate = IF markDuplicate THEN TRUE ELSE @,
              !.severity = IF severity # None THEN Get(severity) ELSE @]
         code == Outcome(f, 4)
     IN  IF auth # 0
           THEN Reply("moderate", auth, "AUTH", u, id, j) /\ UNCHANGED store
         ELSE IF action \notin validActions
           THEN Reply("moderate", 400, "INVALID_ACTION", u, id, j) /\ UNCHANGED store
         ELSE IF JustificationMissing(j)
           THEN Reply("moderate", 400, "JUSTIFICATION", u, id, j) /\ UNCHANGED store
         ELSE IF ~report.exists
           THEN Reply("moderate", 404, "NOT_FOUND", u, id, j) /\ UNCHANGED store
         ELSE /\ reports' = IF f >= 1 THEN [reports EXCEPT ![id] = updated] ELSE reports
              /\ modActions' =
                   IF f >= 2
                     THEN Append(modActions,
                            ModeratorAction(u, id, action, j, FlagValues(report),
                                            FlagValues(updated)))
                     ELSE modActions
              /\ history' =
                   IF f >= 3
                     THEN Append(history,
                            HistoryEntry(id, u, "MODERATED", "none", "none", j))
                     ELSE history
              /\ adminLog' =
                   IF f >= 4
                     THEN Append(adminLog,
                            AdminLogEntry(u, "REPORT", id, "APPROVED", j,
                                          "none", "none"))
                     ELSE adminLog
              /\ Reply("moderate", code, ErrorOf(code), u, id, j)
              /\ UNCHANGED <<bids, contractors, assignments, proofs, auditLog>>

patchValidActions == {"FLAG_SPAM", "MARK_SENSITIVE", "HIDE", "APPROVE"}

\* PATCH /api/admin/reports/:id/moderate
\* The body carries an optional reason; it is stored but never checked.
ModeratePatch(u, id, action, reason, isSpam, isSensitive, f) ==
  /\ Begin
  /\ LET auth == authenticate(u, {"ADMIN", "MODERATOR"})
         report == reports[id]
         updated ==
           [report EXCEPT
              !.isSpam = IF isSpam # None THEN Get(isSpam) ELSE @,
              !.isSensitive = IF isSensitive # None THEN Get(isSensitive) ELSE @]
         code == Outcome(f, 3)
     IN  IF auth # 0
           THEN Reply("moderatePatch", auth, "AUTH", u, id, reason) /\ UNCHANGED store
         ELSE IF action \notin patchValidActions
           THEN Reply("moderatePatch", 400, "INVALID_ACTION", u, id, reason)
                /\ UNCHANGED store
         ELSE IF ~report.exists
           THEN Reply("moderatePatch", 404, "NOT_FOUND", u, id, reason)
                /\ UNCHANGED store
         ELSE /\ reports' = IF f >= 1 THEN [reports EXCEPT ![id] = updated] ELSE reports
              /\ modActions' =
                   IF f >= 2
                     THEN Append(modActions,
                            ModeratorAction(u, id, action, reason,
                              [isSpam |-> report.isSpam,
                               isSensitive |-> report.isSensitive],
                              [isSpam |-> updated.isSpam,
                               isSensitive |-> updated.isSensitive]))
                     ELSE modActions
              /\ history' =
                   IF f >= 3
                     THEN Append(history,
                            HistoryEntry(id, u, "MODERATED", "none", "none", reason))
                     ELSE history
              /\ Reply("moderatePatch", code, ErrorOf(code), u, id, reason)
              /\ UNCHANGED <<bids, contractors, assignments, proofs, adminLog, auditLog>>

Min(a, b) == IF a < b THEN a ELSE b

\* PATCH /api/admin/reports/:id/escalate
EscalateReport(u, id, reason, f) ==
  /\ Begin
  /\ LET auth == authenticate(u, {"ADMIN", "MODERATOR"})
         report == reports[id]
         code == Outcome(f, 2)
     IN  IF auth # 0
           THEN Reply("escalate", auth, "AUTH", u, id, reason) /\ UNCHANGED store
         ELSE IF ~report.exists
           THEN Reply("escalate", 404, "NOT_FOUND", u, id, reason) /\ UNCHANGED store
         ELSE /\ reports' =
                   IF f >= 1
                     THEN [reports EXCEPT
                             ![id].severity = Min(report.severity + 1, MaxSeverity)]
                     ELSE reports
              /\ history' =
                   IF f >= 2
                     THEN Append(history,
                            HistoryEntry(id, u, "ESCALATED", "none", "none", reason))
                     ELSE history
              /\ Reply("escalate", code, ErrorOf(code), u, id, reason)
              /\ UNCHANGED <<bids, contractors, assignments, proofs, adminLog,
                             auditLog, modActions>>

AuditLogEntry(rid, actor, action) ==
  [actorId |-> actor, actorRole |-> RoleOf(actor), action |-> action,
   entityType |-> "REPORT", entityId |-> rid]

\* The history write as an overwrite of the latest row.
logReportChangeHistoryOverwrite(g, rid, actor, action) ==
  IF g >= 1 /\ history # <<>>
    THEN [history EXCEPT
            ![Len(history)] = HistoryEntry(rid, actor, action, "none", "none", None)]
    ELSE history

\* logReportChange: a history entry, then an audit entry; a throw of either
\* write is caught inside and not passed on.  g is the number of its writes
\* that succeed.
logReportChangeHistory(g, rid, actor, action) ==
  IF g >= 1
    THEN Append(history, HistoryEntry(rid, actor, action, "none", "none", None))
    ELSE history

logReportChangeAudit(g, rid, actor, action) ==
  IF g >= 2 THEN Append(auditLog, AuditLogEntry(rid, actor, action)) ELSE auditLog

\* POST /api/reports/:id/duplicate
MarkDuplicate(u, id, duplicateOfId, f) ==
  /\ Begin
  /\ LET auth == authenticate(u, {"MODERATOR", "ADMIN"})
         code == Outcome(f, 2)
     IN  IF auth # 0
           THEN Reply("markDuplicate", auth, "AUTH", u, id, None) /\ UNCHANGED store
         ELSE IF duplicateOfId = None
           THEN Reply("markDuplicate", 400, "DUPLICATE_OF_REQUIRED", u, id, None)
                /\ UNCHANGED store
         ELSE IF ~reports[id].exists \/ ~reports[Get(duplicateOfId)].exists
           THEN Reply("markDuplicate", 404, "NOT_FOUND", u, id, None)
                /\ UNCHANGED store
         ELSE LET marked ==
                    [reports EXCEPT ![id].status = "DUPLICATE",
                                    ![id].duplicateOfId = Get(duplicateOfId),
                                    ![id].isDuplicate = TRUE]
                  counted ==
                    [marked EXCEPT ![Get(duplicateOfId)].noOfDuplicates = @ + 1]
              IN  /\ reports' = IF f >= 2 THEN counted
                                ELSE IF f >= 1 THEN marked ELSE reports
                  /\ history' = IF f >= 2
                                  THEN logReportChangeHistory(f - 2, id, u, "MARKED_DUPLICATE")
                                  ELSE history
                  /\ auditLog' = IF f >= 2
                                   THEN logReportChangeAudit(f - 2, id, u, "MARKED_DUPLICATE")
                                   ELSE auditLog
                  /\ Reply("markDuplicate", code, ErrorOf(code), u, id, None)
                  /\ UNCHANGED <<bids, contractors, assignments, proofs, adminLog,
                                 modActions>>

\* The id the store gives the next report; the id of a deleted report is not
\* given again.
FreeReportIds == {r \in AllReportIds : reports[r] = NoReport}
NextReportId == CHOOSE r \in FreeReportIds : \A q \in FreeReportIds : r <= q

\* POST /api/reports
\* complete: title, latitude and longitude are all present.  severity is
\* optional and defaults to 1.  After the report and its history entry are
\* written the handler evaluates the undeclared identifier wardId while
\* building the arguments of logReportChange, which throws; the catch block
\* answers 500.
CreateReport(u, complete, severity, f) ==
  /\ Begin
  /\ FreeReportIds # {}
  /\ LET auth == authenticate(u, {"CITIZEN"})
         id == NextReportId
         sev == IF severity = None THEN 1 ELSE Get(severity)
     IN  IF auth # 0
           THEN Reply("createReport", auth, "AUTH", u, 0, None) /\ UNCHANGED store
         ELSE IF ~complete
           THEN Reply("createReport", 400, "FIELDS_REQUIRED", u, 0, None)
                /\ UNCHANGED store
         ELSE /\ reports' = IF f >= 1
                              THEN [reports EXCEPT ![id] = NewReport(sev, u)]
                              ELSE reports
              /\ history' =
                   IF f >= 2
                     THEN Append(history,
                            HistoryEntry(id, u, "REPORT_CREATED", "none", "OPEN", None))
                     ELSE history
              /\ Reply("createReport", 500, "FAILED", u, IF f >= 1 THEN id ELSE 0, None)
              /\ UNCHANGED <<bids, contractors, assignments, proofs, adminLog,
                             auditLog, modActions>>

\* The test of the report's status left out.
ReportEditableAlways(existingReport) == TRUE

\* existingReport.status !== "OPEN" refuses the edit.
ReportEditable(existingReport) == existingReport.status = "OPEN"

\* A body field that is sent and truthy: "" and 0 are not written.
TruthyText(v) == v # None /\ Get(v) # ""
TruthyNumber(v) == v # None /\ Get(v) # 0

\* PATCH /api/reports/:id
\* title, description and severity are optional.
EditReport(u, id, title, description, severity, f) ==
  /\ Begin
  /\ LET auth == authenticate(u, {"CITIZEN"})
         existingReport == reports[id]
         code == Outcome(f, 1)
     IN  IF auth # 0
           THEN Reply("editReport", auth, "AUTH", u, id, None) /\ UNCHANGED store
         ELSE IF ~existingReport.exists
           THEN Reply("editReport", 404, "NOT_FOUND", u, id, None) /\ UNCHANGED store
         ELSE IF existingReport.reporterId # u
           THEN Reply("editReport", 403, "NOT_OWNER", u, id, None) /\ UNCHANGED store
         ELSE IF ~ReportEditable(existingReport)
           THEN Reply("editReport", 400, "NOT_EDITABLE", u, id, None) /\ UNCHANGED store
         ELSE /\ reports' =
                   IF f >= 1
                     THEN [reports EXCEPT
                             ![id].title = IF TruthyText(title) THEN Get(title) ELSE @,
                             ![id].description =
                                IF TruthyText(description) THEN Get(description) ELSE @,
                             ![id].severity =
                                IF TruthyNumber(severity) THEN Get(severity) ELSE @]
                     ELSE reports
              /\ history' = IF f >= 1
                              THEN logReportChangeHistory(f - 1, id, u, "REPORT_UPDATED")
                              ELSE history
              /\ auditLog' = IF f >= 1
                               THEN logReportChangeAudit(f - 1, id, u, "REPORT_UPDATED")
                               ELSE auditLog
              /\ Reply("editReport", code, ErrorOf(code), u, id, None)
              /\ UNCHANGED <<bids, contractors, assignments, proofs, adminLog,
                             modActions>>

\* A deleted report: its row is gone.
DeletedReport == [NoReport EXCEPT !.status = "DELETED"]

\* The rows of table t that do not belong to report id.
WithoutReport(t, id) == SelectSeq(t, LAMBDA e : e.reportId # id)

\* DELETE /api/reports/:id
\* f = 0: report.delete throws (the store refuses it, or fails).  cascade:
\* whether the store removes the history and moderator action rows of the
\* report with it.
DeleteReport(u, id, f, cascade) ==
  /\ Begin
  /\ LET auth == authenticate(u, {"CITIZEN", "MODERATOR", "ADMIN"})
         existingReport == reports[id]
         isOwner == existingReport.reporterId = u
         isModerator == RoleOf(u) \in {"MODERATOR", "ADMIN"}
         code == Outcome(f, 1)
     IN  IF auth # 0
           THEN Reply("deleteReport", auth, "AUTH", u, id, None) /\ UNCHANGED store
         ELSE IF ~existingReport.exists
           THEN Reply("deleteReport", 404, "NOT_FOUND", u, id, None)
                /\ UNCHANGED store
         ELSE IF ~isOwner /\ ~isModerator
           THEN Reply("deleteReport", 403, "NOT_ALLOWED", u, id, None)
                /\ UNCHANGED store
         ELSE /\ reports' = IF f >= 1 THEN [reports EXCEPT ![id] = DeletedReport]
                              ELSE reports
              /\ history' = IF f >= 1 /\ cascade THEN WithoutReport(history, id)
                              ELSE history
              /\ modActions' = IF f >= 1 /\ cascade THEN WithoutReport(modActions, id)
                                 ELSE modActions
              /\ Reply("deleteReport", code, ErrorOf(code), u, id, None)
              /\ UNCHANGED <<bids, contractors, assignments, proofs, adminLog,
                             auditLog>>

\* The reaction is looked up but never found.
existingReactionNever(u, id) == FALSE

\* reportReaction.findUnique by (reportId, userId, UPVOTE)
existingReaction(u, id) == u \in reports[id].upvotedBy

\* POST /api/reports/:id/upvote
Upvote(u, id, f) ==
  /\ Begin
  /\ LET auth == authenticate(u, {"CITIZEN"})
         code == Outcome(f, 2)
     IN  IF auth # 0
           THEN Reply("upvote", auth, "AUTH", u, id, None) /\ UNCHANGED store
         ELSE IF ~reports[id].exists
           THEN Reply("upvote", 404, "NOT_FOUND", u, id, None) /\ UNCHANGED store
         ELSE IF existingReaction(u, id)
           THEN Reply("upvote", 400, "ALREADY_UPVOTED", u, id, None) /\ UNCHANGED store
         ELSE /\ reports' =
                   [reports EXCEPT
                      ![id].upvotedBy = IF f >= 1 THEN @ \cup {u} ELSE @,
                      ![id].upvotes = IF f >= 2 THEN @ + 1 ELSE @]
              /\ Reply("upvote", code, ErrorOf(code), u, id, None)
              /\ UNCHANGED <<bids, contractors, assignments, proofs, logs>>

\* POST /api/reports/:id/subscribe
Subscribe(u, id, f) ==
  /\ Begin
  /\ LET auth == authenticate(u, {"CITIZEN"})
         code == Outcome(f, 1)
     IN  IF auth # 0
           THEN Reply("subscribe", auth, "AUTH", u, id, None) /\ UNCHANGED store
         ELSE IF ~reports[id].exists
           THEN Reply("subscribe", 404, "NOT_FOUND", u, id, None) /\ UNCHANGED store
         ELSE IF u \in reports[id].subscribedBy
           THEN Reply("subscribe", 400, "ALREADY_SUBSCRIBED", u, id, None)
                /\ UNCHANGED store
         ELSE /\ reports' =
                   [reports EXCEPT
                      ![id].subscribedBy = IF f >= 1 THEN @ \cup {u} ELSE @]
              /\ Reply("subscribe", code, ErrorOf(code), u, id, None)
              /\ UNCHANGED <<bids, contractors, assignments, proofs, logs>>

\* DELETE /api/reports/:id/subscribe
\* deleteMany removes the caller's subscription, if any, of any report id.
Unsubscribe(u, id, f) ==
  /\ Begin
  /\ LET auth == authenticate(u, {"CITIZEN"})
         code == Outcome(f, 1)
     IN  IF auth # 0
           THEN Reply("unsubscribe", auth, "AUTH", u, id, None) /\ UNCHANGED store
         ELSE /\ reports' =
                   [reports EXCEPT
                      ![id].subscribedBy = IF f >= 1 THEN @ \ {u} ELSE @]
              /\ Reply("unsubscribe", code, ErrorOf(code), u, id, None)
              /\ UNCHANGED <<bids, contractors, assignments, proofs, logs>>

\* report._count.subscriptions
CountSubscriptions(report) == Cardinality(report.subscribedBy)

\* reports.map(report => ({...report, priorityScore: ...})) of the listing:
\* the score of each report found.
reportsWithPriority(found) ==
  [r \in found |->
     (reports[r].severity * 20) + (reports[r].upvotes * 2)
       + (CountSubscriptions(reports[r]) * 5)]

\* The score without the subscriptions.
metricsPriorityScoreNoSubscriptions(report) ==
  (report.severity * 20) + (report.upvotes * 2)

\* metrics.priorityScore of the detail view
metricsPriorityScore(report) ==
  (report.severity * 20) + (report.upvotes * 2) + (CountSubscriptions(report) * 5)

\* GET /api/admin/reports
\* status is the optional filter of the query; the page holds every report
\* found.  f = 0: a read throws.
ListReports(u, status, f) ==
  /\ Begin
  /\ UNCHANGED store
  /\ LET auth == authenticate(u, {"ADMIN", "MODERATOR"})
         found == {r \in AllReportIds :
                     /\ reports[r].exists
                     /\ status # None => reports[r].status = Get(status)}
         code == Outcome(f, 1)
     IN  IF auth # 0 THEN Reply("listReports", auth, "AUTH", u, 0, None)
         ELSE IF code # 200 THEN Reply("listReports", code, ErrorOf(code), u, 0, None)
         ELSE last' = [Response("listReports", 200, "", u, 0, None)
                         EXCEPT !.scores = reportsWithPriority(found)]

\* GET /api/admin/reports/:id
GetReport(u, id, f) ==
  /\ Begin
  /\ UNCHANGED store
  /\ LET auth == authenticate(u, {"ADMIN", "MODERATOR"})
         report == reports[id]
         code == Outcome(f, 1)
     IN  IF auth # 0 THEN Reply("getReport", auth, "AUTH", u, id, None)
         ELSE IF code # 200 THEN Reply("getReport", code, ErrorOf(code), u, id, None)
         ELSE IF ~report.exists THEN Reply("getReport", 404, "NOT_FOUND", u, id, None)
         ELSE last' = [Response("getReport", 200, "", u, id, None)
                         EXCEPT !.scores =
                                  [r \in {id} |-> metricsPriorityScore(report)]]

\* calculateUrgencyScore(report), with ageInDays the days between
\* report.createdAt and the time of the call.  severity and upvotes are
\* integer columns: `|| 0` leaves them as they are and Math.round changes
\* nothing.  The result is capped above only.
calculateUrgencyScore(report, ageInDays) ==
  LET severity == report.severity
      age == IF ageInDays < 1 THEN 5
             ELSE IF ageInDays < 3 THEN 3
             ELSE IF ageInDays < 7 THEN 1
             ELSE 0
      status == IF report.status = "OPEN" THEN 3
                ELSE IF report.status = "VALIDATED" THEN 2
                ELSE 0
      engagement == Min(report.upvotes, MaxEngagement)
  IN  Min(severity + age + status + engagement, MaxUrgency)

\* GET /api/wards/:wardId/reports, for the ward every report is in.
\* No authentication.  status is the optional filter of the query, ages the
\* age in days of each report when the request is served; the page holds
\* every report found.  f = 0: a read throws.
WardReports(status, ages, f) ==
  /\ Begin
  /\ UNCHANGED store
  /\ LET found == {r \in AllReportIds :
                     /\ reports[r].exists
                     /\ status # None => reports[r].status = Get(status)}
         code == Outcome(f, 1)
     IN  IF code # 200 THEN Reply("wardReports", code, ErrorOf(code), "nobody", 0, None)
         ELSE last' = [Response("wardReports", 200, "", "nobody", 0, None)
                         EXCEPT !.scores =
                                  [r \in found |->
                                     calculateUrgencyScore(reports[r], ages[r])],
                                !.ages = [r \in found |-> ages[r]]]

\* The rows in ascending order of createdAt.
HistoryReadsOldestFirst(h, id) ==
  LET rows == {i \in DOMAIN h : h[i].reportId = id}
      n == Cardinality(rows)
  IN  {[k \in 1..n |-> h[p[k]]] :
         p \in {q \in [1..n -> rows] :
                  /\ \A a, b \in 1..n : a # b => q[a] # q[b]
                  /\ \A a, b \in 1..n :
                       a < b => h[q[a]].createdAt <= h[q[b]].createdAt}}

\* history: { orderBy: { createdAt: 'desc' } } in GET /api/admin/reports/:id:
\* the history rows of a report, latest first, as read from the table h.  Rows
\* with equal createdAt come in any order, so the result is the set of the
\* sequences the read can return.
HistoryReads(h, id) ==
  LET rows == {i \in DOMAIN h : h[i].reportId = id}
      n == Cardinality(rows)
  IN  {[k \in 1..n |-> h[p[k]]] :
         p \in {q \in [1..n -> rows] :
                  /\ \A a, b \in 1..n : a # b => q[a] # q[b]
                  /\ \A a, b \in 1..n :
                       a < b => h[q[a]].createdAt >= h[q[b]].createdAt}}

\* A contractor hands in the completion proof of one of its assignments.
SubmitProof(a) ==
  /\ now < MaxTime
  /\ Len(proofs) < MaxProofs
  /\ a \in DOMAIN assignments
  /\ assignments[a].status \in {"ASSIGNED", "IN_PROGRESS"}
  /\ proofs' = Append(proofs, [assignmentId |-> a, status |-> "PENDING",
                               reviewedAt |-> 0, reviewedBy |-> "nobody"])
  /\ UNCHANGED <<reports, bids, contractors, assignments, logs, reqs, pre, last, now>>

\* Every review recorded as an approval.
ReviewedStatusApproved(isApproved) == "APPROVED"

\* isApproved ? "APPROVED" : "REJECTED"
ReviewedStatus(isApproved) == IF isApproved THEN "APPROVED" ELSE "REJECTED"

\* The answer to a review request; target tells an approval from a rejection.
ReplyReview(code, error, u, id, j, isApproved) ==
  last' = [Response("reviewProof", code, error, u, id, j)
             EXCEPT !.target = IF isApproved THEN "APPROVED" ELSE "REJECTED"]

\* PATCH /api/admin/proofs/:id/approve
ReviewProof(u, id, isApproved, j, f) ==
  /\ Begin
  /\ LET auth == authenticate(u, {"ADMIN", "MODERATOR"})
         writes == IF isApproved THEN 5 ELSE 3
         code == Outcome(f, writes)
         \* the writes before the two log entries
         entityWrites == writes - 2
     IN  IF auth # 0
           THEN ReplyReview(auth, "AUTH", u, id, j, isApproved) /\ UNCHANGED store
         ELSE IF JustificationMissing(j)
           THEN ReplyReview(400, "JUSTIFICATION", u, id, j, isApproved)
                /\ UNCHANGED store
         ELSE IF id \notin DOMAIN proofs
           THEN ReplyReview(404, "NOT_FOUND", u, id, j, isApproved)
                /\ UNCHANGED store
         ELSE LET proof == proofs[id]
                  rid == assignments[proof.assignmentId].reportId
              IN  /\ proofs' =
                       IF f >= 1
                         THEN [proofs EXCEPT
                                 ![id].status = ReviewedStatus(isApproved),
                                 ![id].reviewedAt = now,
                                 ![id].reviewedBy = u]
                         ELSE proofs
                  /\ assignments' =
                       IF isApproved /\ f >= 2
                         THEN [assignments EXCEPT
                                 ![proof.assignmentId].status = "COMPLETED",
                                 ![proof.assignmentId].completedAt = now]
                         ELSE assignments
                  /\ reports' =
                       IF isApproved /\ f >= 3
                         THEN [reports EXCEPT ![rid].status = "COMPLETED",
                                              ![rid].completedAt = now]
                         ELSE reports
                  /\ history' =
                       IF f >= entityWrites + 1
                         THEN Append(history,
                                HistoryEntry(rid, u,
                                  IF isApproved THEN "PROOF_APPROVED"
                                  ELSE "PROOF_REJECTED",
                                  "none", "none", j))
                         ELSE history
                  /\ adminLog' =
                       IF f >= entityWrites + 2
                         THEN Append(adminLog,
                                AdminLogEntry(u, "PROOF", id,
                                  IF isApproved THEN "APPROVED" ELSE "REJECTED",
                                  j, proof.status, ReviewedStatus(isApproved)))
                         ELSE adminLog
                  /\ ReplyReview(code, ErrorOf(code), u, id, j, isApproved)
                  /\ UNCHANGED <<bids, contractors, auditLog, modActions>>

\* Every status an assignment can have.
cancelledStatusesAll == {"ASSIGNED", "IN_PROGRESS", "COMPLETED", "CANCELLED"}

\* status: { in: ["ASSIGNED", "IN_PROGRESS"] }
cancelledStatuses == {"ASSIGNED", "IN_PROGRESS"}

\* The cancellation without its reason.
CancelActiveAssignmentsSilently(cid) ==
  [a \in DOMAIN assignments |->
     IF assignments[a].contractorId = cid
        /\ assignments[a].status \in cancelledStatuses
       THEN [assignments[a] EXCEPT !.status = "CANCELLED"]
       ELSE assignments[a]]

\* assignment.updateMany where contractorId = id and status in
\* (ASSIGNED, IN_PROGRESS)
CancelActiveAssignments(cid) ==
  [a \in DOMAIN assignments |->
     IF assignments[a].contractorId = cid
        /\ assignments[a].status \in cancelledStatuses
       THEN [assignments[a] EXCEPT
               !.status = "CANCELLED",
               !.cancelReason = Some("Contractor blocked by admin")]
       ELSE assignments[a]]

\* The answer to a block request; target tells a block from an unblock.
ReplyBlock(code, error, u, id, j, isBlocked) ==
  last' = [Response("block", code, error, u, id, j)
             EXCEPT !.target = IF isBlocked THEN "BLOCKED" ELSE "UNBLOCKED"]

\* PATCH /api/admin/contractors/:id/block
BlockContractor(u, id, isBlocked, j, f) ==
  /\ Begin
  /\ LET auth == authenticate(u, {"ADMIN", "SUPERADMIN"})
         writes == IF isBlocked THEN 3 ELSE 2
         code == Outcome(f, writes)
     IN  IF auth # 0
           THEN ReplyBlock(auth, "AUTH", u, id, j, isBlocked) /\ UNCHANGED store
         ELSE IF JustificationMissing(j)
           THEN ReplyBlock(400, "JUSTIFICATION", u, id, j, isBlocked)
                /\ UNCHANGED store
         ELSE IF id \notin ContractorIds
           THEN ReplyBlock(404, "NOT_FOUND", u, id, j, isBlocked) /\ UNCHANGED store
         ELSE /\ contractors' =
                   IF f >= 1
                     THEN [contractors EXCEPT
                             ![id] = [isBlocked |-> isBlocked,
                                      blockReason |-> IF isBlocked THEN j ELSE None,
                                      blockedBy |-> IF isBlocked THEN u ELSE "nobody"]]
                     ELSE contractors
              /\ assignments' =
                   IF isBlocked /\ f >= 2 THEN CancelActiveAssignments(id)
                   ELSE assignments
              /\ adminLog' =
                   IF f >= writes
                     THEN Append(adminLog,
                            AdminLogEntry(u, "CONTRACTOR", id,
                              IF isBlocked THEN "BLOCKED" ELSE "UNBLOCKED", j,
                              contractors[id].isBlocked, isBlocked))
                     ELSE adminLog
              /\ ReplyBlock(code, ErrorOf(code), u, id, j, isBlocked)
              /\ UNCHANGED <<reports, bids, proofs, history, auditLog, modActions>>

BidInputs == BidIds \cup {0}

\* Accept-bid requests served one at a time.
NextBidSeq ==
  \/ \E s \in Slots, u \in {"admin"}, id \in ReportIds,
        b \in BidInputs, j \in {GoodJust} :
       Quiet /\ AcceptBidStart(s, u, id, b, j)
  \/ \E s \in Slots : AcceptBidStep(s)

SpecBidSeq == Init /\ [][NextBidSeq]_vars

\* The deadline of a request: absent, or a day after every estimate.
Deadlines == {None, Some(MaxTime + MaxBids + 1)}

\* Accept-bid requests with and without a deadline, served one at a time.
NextAccept ==
  \/ \E s \in Slots, id \in ReportIds, b \in BidInputs, deadline \in Deadlines :
       /\ Quiet /\ now <= ShortRun
       /\ AcceptBidRequest(s, "admin", id, b, GoodJust, deadline)
  \/ \E s \in Slots : AcceptBidStep(s)

SpecAccept == Init /\ [][NextAccept]_vars

\* Accept-bid requests served one at a time by a store whose calls succeed
\* wherever its constraints allow.
NextBidRepeat ==
  \/ \E s \in Slots, id \in ReportIds, b \in BidInputs :
       Quiet /\ AcceptBidStart(s, "admin", id, b, GoodJust)
  \/ \E s \in Slots : AcceptBidProgress(s)

SpecBidRepeat == Init /\ [][NextBidRepeat]_vars

\* Accept-bid requests arriving while another one is being served.
NextBid ==
  \/ \E s \in Slots, u \in {"admin"}, id \in ReportIds,
        b \in BidInputs, j \in {GoodJust} :
       now <= ShortRun /\ AcceptBidStart(s, u, id, b, j)
  \/ \E s \in Slots : AcceptBidStep(s)

SpecBid == Init /\ [][NextBid]_vars

\* Direct assignments and bid acceptances on the same reports, also while
\* another bid acceptance is being served, and the blocking of a contractor.
NextAssign ==
  \/ \E id \in {1, MaxReports}, c \in {None, Some(1)} :
       AssignReport("admin", id, c, None, GoodJust, 3)
  \/ \E s \in Slots, b \in {1, 2} : AcceptBidStart(s, "admin", 1, b, GoodJust)
  \/ \E s \in Slots : AcceptBidProgress(s)
  \/ BlockContractor("admin", 1, TRUE, GoodJust, 3)

SpecAssign == Init /\ [][NextAssign]_vars

\* Change-status requests arriving while another one is being served, with a
\* store whose calls succeed.
NextStatus ==
  \/ \E s \in Slots, id \in ReportIds,
        status \in {"VALIDATED", "IN_PROGRESS", "CLOSED", "BOGUS"} :
       ChangeStatusStart(s, "admin", id, status, GoodJust)
  \/ \E s \in Slots : ChangeStatusProgress(s)

SpecStatus == Init /\ [][NextStatus]_vars

\* Contractors get assignments, hand in proofs, have them approved, and are
\* blocked and unblocked.
NextBlock ==
  \/ \E id \in ReportIds, c \in {1, MaxContractors} :
       AssignReport("admin", id, Some(c), None, GoodJust, 3)
  \/ \E a \in 1..MaxReports : SubmitProof(a)
  \/ now <= ShortRun /\ ReviewProof("admin", 1, TRUE, GoodJust, 5)
  \/ \E id \in {1, MaxContractors, MaxContractors + 1}, isBlocked \in BOOLEAN,
        f \in {1, 3} :
       BlockContractor("superAdmin", id, isBlocked, GoodJust, f)

SpecBlock == Init /\ [][NextBlock]_vars

\* The store when its last report was filed by a citizen who holds no
\* credential of FAKE_USERS.
InitCitizen ==
  /\ now = 1
  /\ reports = [r \in AllReportIds |->
                  IF r = MaxReports THEN NewReport(1, "citizen2")
                  ELSE IF r \in ReportIds THEN NewReport(1, "citizen1")
                  ELSE NoReport]
  /\ bids = [b \in BidIds |-> NewBid(b)]
  /\ contractors = [c \in ContractorIds |->
                      [isBlocked |-> FALSE, blockReason |-> None,
                       blockedBy |-> "nobody"]]
  /\ assignments = <<>>
  /\ proofs = <<>>
  /\ history = [r \in ReportIds |->
                  [HistoryEntry(r, reports[r].reporterId, "REPORT_CREATED", "none",
                                "OPEN", None)
                     EXCEPT !.createdAt = 0]]
  /\ adminLog = <<>>
  /\ auditLog = <<>>
  /\ modActions = <<>>
  /\ reqs = [s \in Slots |-> IdleReq]
  /\ pre = <<>>
  /\ last = NoResponse

\* The bodies of the edit requests: title, description, severity.
EditBodies ==
  {<<None, None, None>>, <<Some("t1"), None, None>>,
   <<Some(""), Some("d1"), Some(0)>>, <<None, None, Some(3)>>}

\* The first report, the last one filed before the first request, and the
\* next one.
SomeReportIds == {1, MaxReports, MaxReports + 1}

\* The citizen's edits and the deletions, among status changes.
NextCitizen ==
  \/ \E u \in {"citizen1", "moderator"}, id \in SomeReportIds, b \in EditBodies,
        f \in {0, 3} :
       EditReport(u, id, b[1], b[2], b[3], f)
  \/ \E u \in {"citizen1", "moderator", "superAdmin"}, id \in SomeReportIds,
        o \in {<<0, FALSE>>, <<1, FALSE>>, <<1, TRUE>>} :
       DeleteReport(u, id, o[1], o[2])
  \/ \E id \in {1, MaxReports}, status \in {"VALIDATED", "OPEN"} :
       ChangeStatus("admin", id, status, GoodJust, 3)
  \/ CreateReport("citizen1", TRUE, None, 2)

SpecCitizen == InitCitizen /\ [][NextCitizen]_vars

\* Every handler that writes a log table, one request after the other, with
\* log writes that may throw, and the deletion of reports.
NextTrail ==
  \/ \E id \in {1, MaxReports}, f \in {2, 3} :
       Quiet /\ ChangeStatus("admin", id, "VALIDATED", GoodJust, f)
  \/ \E f \in {2, 3} :
       /\ Quiet /\ now <= ShortRun
       /\ AssignReport("admin", 1, Some(1), None, GoodJust, f)
  \/ \E s \in Slots :
       /\ Quiet /\ now <= ShortRun
       /\ AcceptBidStart(s, "moderator", MaxReports, MaxBids, GoodJust)
  \/ \E s \in Slots : AcceptBidProgress(s)
  \/ \E f \in {3, 4} :
       /\ Quiet /\ now <= ShortRun
       /\ ModeratePost("moderator", 1, "FLAG_SPAM", GoodJust, Some(TRUE), None,
                       None, None, f)
  \/ /\ Quiet /\ now <= ShortRun
     /\ ModeratePatch("moderator", 1, "HIDE", None, None, Some(TRUE), 3)
  \/ Quiet /\ now <= ShortRun /\ EscalateReport("admin", MaxReports, None, 2)
  \/ \E f \in 2..4 :
       Quiet /\ now <= ShortRun /\ MarkDuplicate("moderator", MaxReports, Some(1), f)
  \/ Quiet /\ CreateReport("citizen1", TRUE, None, 2)
  \/ \E f \in 1..3 :
       Quiet /\ EditReport("citizen1", 1, Some("t1"), None, None, f)
  \/ \E id \in {1, MaxReports}, cascade \in BOOLEAN :
       Quiet /\ DeleteReport("admin", id, 1, cascade)
  \/ Quiet /\ SubmitProof(1)
  \/ \E isApproved \in BOOLEAN :
       Quiet /\ now <= ShortRun /\ ReviewProof("admin", 1, isApproved, GoodJust, 5)
  \/ Quiet /\ now <= ShortRun /\ BlockContractor("admin", 1, TRUE, GoodJust, 3)

SpecTrail == Init /\ [][NextTrail]_vars

\* The citizens of the store: the one of FAKE_USERS and two more.
Citizens == {"citizen1", "citizen2", "citizen3"}

\* None, one, two or all of the citizens.
Crowds == {{}, {"citizen2"}, {"citizen2", "citizen3"}, Citizens}

\* The store when report 1 has any severity, and upvotes and subscriptions of
\* some of the citizens.
InitPriority ==
  /\ now = 1
  /\ \E sev \in 1..MaxSeverity, up \in Crowds, sub \in Crowds :
       reports = [r \in AllReportIds |->
                    IF r = 1
                      THEN [NewReport(sev, "citizen1") EXCEPT
                              !.upvotes = Cardinality(up), !.upvotedBy = up,
                              !.subscribedBy = sub]
                    ELSE IF r \in ReportIds THEN NewReport(1, "citizen1")
                    ELSE NoReport]
  /\ bids = [b \in BidIds |-> NewBid(b)]
  /\ contractors = [c \in ContractorIds |->
                      [isBlocked |-> FALSE, blockReason |-> None,
                       blockedBy |-> "nobody"]]
  /\ assignments = <<>>
  /\ proofs = <<>>
  /\ history = [r \in ReportIds |->
                  [HistoryEntry(r, "citizen1", "REPORT_CREATED", "none", "OPEN", None)
                     EXCEPT !.createdAt = 0]]
  /\ adminLog = <<>>
  /\ auditLog = <<>>
  /\ modActions = <<>>
  /\ reqs = [s \in Slots |-> IdleReq]
  /\ pre = <<>>
  /\ last = NoResponse

\* The two admin views, among the requests that change what the score is
\* computed from.
NextPriority ==
  \/ \E u \in {"admin", "citizen1"}, status \in {None, Some("OPEN")}, f \in 0..1 :
       ListReports(u, status, f)
  \/ \E u \in {"moderator", "citizen1"}, id \in SomeReportIds, f \in 0..1 :
       GetReport(u, id, f)
  \/ now <= ShortRun /\ Upvote("citizen1", 1, 2)
  \/ \E id \in SomeReportIds, f \in 0..1 :
       now <= ShortRun /\ Subscribe("citizen1", id, f)
  \/ now <= ShortRun /\ Unsubscribe("citizen1", 1, 1)
  \/ now <= ShortRun /\ EscalateReport("admin", 1, None, 2)
  \/ now <= ShortRun /\ ChangeStatus("admin", 1, "VALIDATED", GoodJust, 3)

SpecPriority == InitPriority /\ [][NextPriority]_vars

\* Assignments on their way to an end: assigned, proven, cancelled by a block
\* of the contractor, completed by a review.
NextTerminal ==
  \/ \E id \in {1, MaxReports}, c \in {1, MaxContractors} :
       AssignReport("admin", id, Some(c), None, GoodJust, 3)
  \/ \E a \in {1, 2} : SubmitProof(a)
  \/ \E id \in {1, MaxProofs}, isApproved \in BOOLEAN :
       ReviewProof("admin", id, isApproved, GoodJust, 5)
  \/ \E id \in {1, MaxContractors}, isBlocked \in BOOLEAN, f \in {1, 3} :
       BlockContractor("superAdmin", id, isBlocked, GoodJust, f)

SpecTerminal == Init /\ [][NextTerminal]_vars

\* The ages in days at both sides of each threshold of the urgency score.
Ages == {0, 1, 2, 3, 6, 7}

\* The severities a moderation request can carry: in range, and beyond what
\* the urgency score's cap leaves room for, below and above.
UrgencySeverities == {1, MaxSeverity, 0 - MaxUrgency, MaxUrgency}

\* The ward listing, among the requests that change what the urgency score
\* is computed from.
NextUrgency ==
  \/ \E status \in {None, Some("OPEN")}, first \in Ages, others \in Ages, f \in 0..1 :
       WardReports(status, [r \in AllReportIds |-> IF r = 1 THEN first ELSE others], f)
  \/ \E severity \in UrgencySeverities :
       /\ now <= ShortRun
       /\ ModeratePost("moderator", 1, "APPROVE", GoodJust, None, None, None,
                       Some(severity), 4)
  \/ now <= ShortRun /\ Upvote("citizen1", 1, 2)
  \/ \E status \in {"VALIDATED", "RESOLVED"} :
       now <= ShortRun /\ ChangeStatus("admin", 1, status, GoodJust, 3)

SpecUrgency == Init /\ [][NextUrgency]_vars

(***************************************************************************)
(* Inputs of the requests.                                                 *)
(***************************************************************************)
Pad(t) == <<" ">> \o t \o <<" ">>

\* Absent, one character short (bare, and padded with spaces to a raw length
\* above the threshold), and exactly long enough (bare and padded).
Justifications ==
  {None, Some(Rep("a", MinJustification - 1)),
   Some(Pad(Rep("a", MinJustification - 1))),
   GoodJust, Some(Pad(Rep("a", MinJustification)))}

StatusInputs == validStatuses \cup {"BOGUS"}
SeverityInputs == {None, Some(0), Some(1), Some(MaxSeverity), Some(MaxSeverity + 1)}
FlagInputs == {None, Some(TRUE), Some(FALSE)}
DuplicateInputs == {None} \cup {Some(r) : r \in AllReportIds}

\* The report lifecycle of one report: status changes, direct assignment and
\* the completion path.
NextLifecycle ==
  \/ \E id \in {1, MaxReports + MaxNewReports}, status \in StatusInputs :
       ChangeStatus("admin", id, status, GoodJust, 3)
  \/ \E c \in {None, Some(1)}, d \in {None, Some(1)} :
       AssignReport("moderator", 1, c, d, GoodJust, 3)
  \/ \E a \in 1..MaxTime : SubmitProof(a)
  \/ \E id \in 1..MaxProofs, isApproved \in BOOLEAN :
       ReviewProof("admin", id, isApproved, GoodJust, 5)

SpecLifecycle == Init /\ [][NextLifecycle]_vars

\* Duplicates: the three ways a report becomes DUPLICATE, and back to OPEN.
NextDuplicate ==
  \/ \E id \in ReportIds, status \in {"DUPLICATE", "OPEN"} :
       ChangeStatus("admin", id, status, GoodJust, 3)
  \/ \E id \in AllReportIds, d \in DuplicateInputs :
       MarkDuplicate("moderator", id, d, 4)
  \/ \E id \in ReportIds, d \in DuplicateInputs :
       ModeratePost("admin", id, "MARK_DUPLICATE", GoodJust, None, None, d, None, 4)

SpecDuplicate == Init /\ [][NextDuplicate]_vars

\* Moderation of report 1, and the citizen's own writes of a report.
NextModeration ==
  \/ \E action \in {"FLAG_SPAM", "ESCALATE", "BOGUS"}, j \in {None, GoodJust},
        isSpam \in {None, Some(TRUE)}, severity \in {None, Some(0), Some(MaxSeverity + 1)} :
       ModeratePost("moderator", 1, action, j, isSpam, None, None, severity, 4)
  \/ \E action \in {"FLAG_SPAM", "REJECT"}, reason \in {None, Some(<<"a">>)},
        isSpam \in FlagInputs, isSensitive \in {None, Some(TRUE)} :
       ModeratePatch("admin", 1, action, reason, isSpam, isSensitive, 3)
  \/ \E reason \in {None, GoodJust} : EscalateReport("moderator", 1, reason, 2)
  \/ MarkDuplicate("admin", 1, Some(MaxReports), 4)
  \/ \E complete \in BOOLEAN, severity \in SeverityInputs :
       CreateReport("citizen1", complete, severity, 2)
  \/ \E id \in AllReportIds, severity \in SeverityInputs :
       EditReport("citizen1", id, None, None, severity, 3)

SpecModeration == Init /\ [][NextModeration]_vars

\* The six operations that ask for a justification, on valid targets, with
\* every kind of justification; two requests, one after the other.
NextJust ==
  \/ \E j \in Justifications :
       Quiet /\ now <= ShortRun /\ ChangeStatus("admin", 1, "VALIDATED", j, 3)
  \/ \E j \in Justifications :
       Quiet /\ now <= ShortRun /\ AssignReport("admin", 1, Some(1), None, j, 3)
  \/ \E s \in Slots, j \in Justifications :
       Quiet /\ now <= ShortRun /\ AcceptBidStart(s, "admin", 1, 1, j)
  \/ \E s \in Slots : AcceptBidProgress(s)
  \/ \E j \in Justifications :
       Quiet /\ now <= ShortRun
       /\ ModeratePost("admin", 1, "FLAG_SPAM", j, Some(TRUE), None, None, None, 4)
  \/ Quiet /\ SubmitProof(1)
  \/ \E j \in Justifications, isApproved \in BOOLEAN :
       Quiet /\ now <= ShortRun /\ ReviewProof("admin", 1, isApproved, j, 5)
  \/ \E j \in Justifications, isBlocked \in BOOLEAN :
       Quiet /\ now <= ShortRun /\ BlockContractor("admin", 1, isBlocked, j, 3)

SpecJust == Init /\ [][NextJust]_vars

\* Requests with targets that do not exist, values that are not recognized and
\* bids of another report, among requests that go through.
NextErrors ==
  \/ \E id \in {1, MaxReports + MaxNewReports}, status \in {"VALIDATED", "BOGUS"} :
       Quiet /\ now <= ShortRun /\ ChangeStatus("admin", id, status, GoodJust, 3)
  \/ \E id \in {1, MaxReports + MaxNewReports},
        c \in {None, Some(1), Some(MaxContractors + 1)} :
       Quiet /\ now <= ShortRun /\ AssignReport("admin", id, c, None, GoodJust, 3)
  \/ \E s \in Slots, id \in ReportIds, b \in BidInputs :
       Quiet /\ now <= ShortRun /\ AcceptBidStart(s, "admin", id, b, GoodJust)
  \/ \E s \in Slots : AcceptBidProgress(s)
  \/ \E id \in {1, MaxReports + MaxNewReports}, action \in {"FLAG_SPAM", "BOGUS"} :
       /\ Quiet /\ now <= ShortRun
       /\ ModeratePost("moderator", id, action, GoodJust, Some(TRUE), None, None,
                       None, 4)
  \/ \E id \in {1, MaxReports + MaxNewReports}, action \in {"HIDE", "REJECT"} :
       /\ Quiet /\ now <= ShortRun
       /\ ModeratePatch("moderator", id, action, None, None, Some(TRUE), 3)
  \/ /\ Quiet /\ now <= ShortRun
     /\ EscalateReport("admin", MaxReports + MaxNewReports, None, 2)
  \/ \E a \in 1..MaxTime : Quiet /\ SubmitProof(a)
  \/ \E id \in 1..MaxProofs :
       Quiet /\ now <= ShortRun /\ ReviewProof("admin", id, TRUE, GoodJust, 5)
  \/ \E id \in {1, MaxContractors + 1} :
       Quiet /\ now <= ShortRun /\ BlockContractor("admin", id, TRUE, GoodJust, 3)

SpecErrors == Init /\ [][NextErrors]_vars

\* Every caller, known or not, on every privileged route.
Callers == FAKE_USERS \cup {"nobody"}

NextAuth ==
  \/ \E u \in Callers :
       Quiet /\ now <= ShortRun /\ ChangeStatus(u, 1, "VALIDATED", GoodJust, 3)
  \/ \E u \in Callers :
       Quiet /\ now <= ShortRun /\ AssignReport(u, 1, Some(1), None, GoodJust, 3)
  \/ \E s \in Slots, u \in Callers :
       /\ Quiet /\ now <= ShortRun
       /\ AcceptBidStart(s, u, MaxReports, MaxBids, GoodJust)
  \/ \E s \in Slots : AcceptBidProgress(s)
  \/ \E u \in Callers :
       /\ Quiet /\ now <= ShortRun
       /\ ModeratePost(u, 1, "FLAG_SPAM", GoodJust, Some(TRUE), None, None, None, 4)
  \/ \E a \in 1..MaxTime : Quiet /\ SubmitProof(a)
  \/ \E u \in Callers, isApproved \in BOOLEAN :
       Quiet /\ now <= ShortRun /\ ReviewProof(u, 1, isApproved, GoodJust, 5)
  \/ \E u \in Callers, isBlocked \in BOOLEAN :
       Quiet /\ now <= ShortRun /\ BlockContractor(u, 1, isBlocked, GoodJust, 3)

SpecAuth == Init /\ [][NextAuth]_vars

\* Upvotes, among the citizen's other requests and status changes.
NextUpvote ==
  \/ \E u \in {"citizen1", "admin"}, id \in AllReportIds, f \in 0..2 : Upvote(u, id, f)
  \/ \E severity \in {None, Some(2)} : CreateReport("citizen1", TRUE, severity, 2)
  \/ \E id \in ReportIds, severity \in {Some(2), Some(3)} :
       EditReport("citizen1", id, None, None, severity, 3)
  \/ \E id \in ReportIds : ChangeStatus("admin", id, "VALIDATED", GoodJust, 3)

SpecUpvote == Init /\ [][NextUpvote]_vars

\* Reports are filed, edited by their reporter, assigned and moved on.
NextRoundTrip ==
  \/ \E severity \in {None, Some(2)} : CreateReport("citizen1", TRUE, severity, 2)
  \/ \E id \in AllReportIds, c \in {None, Some(1)}, dep \in {None, Some(1)} :
       AssignReport("admin", id, c, dep, GoodJust, 3)
  \/ \E id \in AllReportIds, status \in {"VALIDATED", "CLOSED"} :
       ChangeStatus("moderator", id, status, GoodJust, 3)
  \/ \E id \in AllReportIds : EditReport("citizen1", id, None, None, Some(3), 3)

SpecRoundTrip == Init /\ [][NextRoundTrip]_vars

\* The store calls that write a log entry (history, moderator action, admin
\* log) may throw; the calls that write the entities succeed.  One request
\* after the other.
LogPcs == {"createHistory", "createAdminLog", "statusHistory", "statusAdminLog"}

NextLogFail ==
  \/ \E s \in Slots, status \in {"VALIDATED", "CLOSED"} :
       Quiet /\ ChangeStatusStart(s, "admin", 1, status, GoodJust)
  \/ \E s \in Slots : ChangeStatusProgress(s)
  \/ \E s \in Slots : reqs[s].pc \in LogPcs /\ ChangeStatusThrow(s)
  \/ \E c \in {None, Some(1)}, f \in 1..3 :
       Quiet /\ AssignReport("admin", 1, c, None, GoodJust, f)
  \/ \E s \in Slots :
       Quiet /\ AcceptBidStart(s, "admin", MaxReports, MaxBids, GoodJust)
  \/ \E s \in Slots : AcceptBidProgress(s)
  \/ \E s \in Slots : reqs[s].pc \in LogPcs /\ AcceptBidThrow(s)
  \/ \E f \in 1..4 :
       Quiet /\ ModeratePost("moderator", 1, "FLAG_SPAM", GoodJust, Some(TRUE),
                             None, None, None, f)
  \/ \E a \in 1..MaxTime : Quiet /\ SubmitProof(a)
  \/ \E isApproved \in BOOLEAN, f \in 1..5 :
       /\ f >= (IF isApproved THEN 3 ELSE 1)
       /\ Quiet /\ ReviewProof("admin", 1, isApproved, GoodJust, f)
  \/ \E isBlocked \in BOOLEAN, f \in 1..3 :
       /\ f >= (IF isBlocked THEN 2 ELSE 1)
       /\ Quiet /\ BlockContractor("admin", 1, isBlocked, GoodJust, f)

SpecLogFail == Init /\ [][NextLogFail]_vars

(***************************************************************************)
(* Bids of one report.                                                     *)
(***************************************************************************)
BidsOf(id) == {b \in BidIds : bids[b].reportId = id}
AcceptedOn(id) == {b \in BidsOf(id) : bids[b].status = "ACCEPTED"}
ExactlyOneAccepted(id) ==
  /\ Cardinality(AcceptedOn(id)) = 1
  /\ \A b \in BidsOf(id) \ AcceptedOn(id) : bids[b].status = "REJECTED"

C2_ConcurrentAcceptBid ==
  \A s, t \in Slots :
    (/\ s # t
     /\ reqs[s].op = "acceptBid" /\ reqs[t].op = "acceptBid"
     /\ reqs[s].id = reqs[t].id /\ reqs[s].id \in ReportIds
     /\ reqs[s].bidId # reqs[t].bidId)
    => /\ (InFlight(s) /\ InFlight(t)) => Cardinality(AcceptedOn(reqs[s].id)) <= 1
       /\ (reqs[s].code = 200 /\ reqs[t].code = 200) => ExactlyOneAccepted(reqs[s].id)

\* C3: an accept-bid request that ended in a failure has left the reports,
\* bids and assignments as it found them.
C3_AcceptBidAllOrNothing ==
  (Quiet /\ last.op = "acceptBid" /\ last.code = 500) => entities = pre

(***************************************************************************)
(* Justifications.                                                         *)
(***************************************************************************)
TooShort(j) == j = None \/ Len(trim(Get(j))) < MinJustification
ExactlyLongEnough(j) == j # None /\ Len(trim(Get(j))) = MinJustification

JustifiedOps ==
  {"changeStatus", "assign", "acceptBid", "moderate", "reviewProof", "block"}

\* C4: change-status, direct assignment, accept-bid, moderate (POST),
\* review-proof and block/unblock answer an authorized call whose
\* justification is absent or shorter than 10 characters after trimming with
\* a validation error (400) and leave every table as it was; a justification
\* of exactly 10 trimmed characters is never answered with the justification
\* error.
C4_JustificationThreshold ==
  /\ []((last.op \in JustifiedOps /\ last.code \notin {401, 403}) =>
          /\ TooShort(last.just) => last.code = 400
          /\ ExactlyLongEnough(last.just) => last.error # "JUSTIFICATION")
  /\ [][(now' # now /\ last'.op \in JustifiedOps /\ TooShort(last'.just))
          => UNCHANGED store]_vars

\* A call refused for nine characters between two spaces, after a call with ten
\* characters between two spaces went through and was logged.
C4_Witness ==
  /\ last.op \in JustifiedOps /\ last.code = 400 /\ last.error = "JUSTIFICATION"
  /\ last.just # None /\ Len(Get(last.just)) > MinJustification
  /\ \E i \in DOMAIN adminLog :
       /\ ExactlyLongEnough(adminLog[i].justificationMessage)
       /\ Len(Get(adminLog[i].justificationMessage)) > MinJustification

AdminOps ==
  {"changeStatus", "assign", "acceptBid", "moderate", "moderatePatch",
   "escalate", "markDuplicate", "reviewProof"}

ModeratedFields(r) ==
  <<r.status, r.severity, r.isSpam, r.isSensitive, r.isDuplicate, r.duplicateOfId>>

\* C5: no admin or moderator request changes the status, the severity or a
\* moderation flag of a report unless it carried a justification of at least
\* 10 trimmed characters.
C5_JustifiedEverywhere ==
  [][(/\ now' # now
      /\ last'.op \in AdminOps
      /\ \E r \in AllReportIds :
           ModeratedFields(reports'[r]) # ModeratedFields(reports[r]))
     => ~TooShort(last'.just)]_vars

\* C6: every report has a severity between 1 and 5.
C6_SeverityInRange ==
  \A r \in AllReportIds :
    reports[r].exists => reports[r].severity \in 1..MaxSeverity

\* C7: every DUPLICATE report names another, existing report as the one it
\* duplicates.
C7_DuplicateHasCanonical ==
  \A r \in AllReportIds :
    (reports[r].exists /\ reports[r].status = "DUPLICATE") =>
      /\ reports[r].duplicateOfId \in AllReportIds
      /\ reports[r].duplicateOfId # r
      /\ reports[reports[r].duplicateOfId].exists

\* C8: closedAt and completedAt never change once they are set.
C8_TimestampsWriteOnce ==
  [][\A r \in AllReportIds :
       /\ reports[r].closedAt # 0 => reports'[r].closedAt = reports[r].closedAt
       /\ reports[r].completedAt # 0
            => reports'[r].completedAt = reports[r].completedAt]_vars

\* C9: a CLOSED report has its closedAt and a COMPLETED report has its
\* completedAt.
C9_TimestampSetOnEntry ==
  \A r \in AllReportIds :
    reports[r].exists =>
      /\ reports[r].status = "CLOSED" => reports[r].closedAt # 0
      /\ reports[r].status = "COMPLETED" => reports[r].completedAt # 0

\* C10: an ASSIGNED report has an assignment.
C10_AssignedHasAssignment ==
  \A r \in AllReportIds :
    (reports[r].exists /\ reports[r].status = "ASSIGNED") =>
      \E a \in DOMAIN assignments : assignments[a].reportId = r

(***************************************************************************)
(* Assignments and the completion of reports.                              *)
(***************************************************************************)
ActiveAssignments(id) ==
  {a \in DOMAIN assignments :
     /\ assignments[a].reportId = id
     /\ assignments[a].status \in {"ASSIGNED", "IN_PROGRESS"}}

ApprovalOf(p) ==
  /\ now' # now
  /\ last'.op = "reviewProof" /\ last'.id = p
  /\ p \in DOMAIN proofs'
  /\ proofs'[p].status = "APPROVED"

\* C12: a report becomes COMPLETED, and an assignment becomes COMPLETED, only
\* in a step that approves a completion proof of that assignment (of the
\* assignment of that report).
C12_CompletedOnlyByApproval ==
  [][/\ \A r \in AllReportIds :
          (reports[r].status # "COMPLETED" /\ reports'[r].status = "COMPLETED")
            => \E p \in DOMAIN proofs' :
                 /\ ApprovalOf(p)
                 /\ assignments'[proofs'[p].assignmentId].reportId = r
     /\ \A a \in DOMAIN assignments :
          (assignments[a].status # "COMPLETED" /\ assignments'[a].status = "COMPLETED")
            => \E p \in DOMAIN proofs' :
                 ApprovalOf(p) /\ proofs'[p].assignmentId = a]_vars

(***************************************************************************)
(* The trail of a status change.                                           *)
(***************************************************************************)
Last(q) == q[Len(q)]
AppendsOne(q, r) == Len(r) = Len(q) + 1 /\ SubSeq(r, 1, Len(q)) = q

\* C13: a successful change-status call, served alone, sets the status of the
\* report to the target and appends exactly one history entry (STATUS_CHANGED)
\* and exactly one admin log entry (entity type REPORT), each with the status
\* the report had right before the call as the old status, the target as the
\* new status, the caller and the justification.
C13_ChangeStatusLogged ==
  [][(now' # now /\ last'.op = "changeStatus" /\ last'.code = 200) =>
       /\ reports'[last'.id].status = last'.target
       /\ AppendsOne(history, history')
       /\ Last(history').reportId = last'.id
       /\ Last(history').action = "STATUS_CHANGED"
       /\ Last(history').oldStatus = reports[last'.id].status
       /\ Last(history').newStatus = last'.target
       /\ Last(history').actorId = last'.user
       /\ Last(history').justification = last'.just
       /\ AppendsOne(adminLog, adminLog')
       /\ Last(adminLog').entityType = "REPORT"
       /\ Last(adminLog').entityId = last'.id
       /\ Last(adminLog').oldValue = reports[last'.id].status
       /\ Last(adminLog').newValue = last'.target
       /\ Last(adminLog').adminId = last'.user
       /\ Last(adminLog').justificationMessage = last'.just
       /\ UNCHANGED <<auditLog, modActions>>]_vars

\* A status change of a report that had been assigned before: ASSIGNED to
\* CLOSED, with both entries written.
C13_Witness ==
  /\ last.op = "changeStatus" /\ last.code = 200 /\ last.target = "CLOSED"
  /\ history # <<>> /\ Last(history).oldStatus = "ASSIGNED"
  /\ Last(history).newStatus = "CLOSED"
  /\ adminLog # <<>> /\ Last(adminLog).oldValue = "ASSIGNED"
  /\ reports[last.id].status = "CLOSED"

\* C14: with change-status requests on one report interleaved, the old status
\* a request writes into its history and admin log entries (the one it read at
\* its start) is the status the report holds right before the update of that
\* request is applied.
C14_OldStatusChain ==
  [][\A s \in Slots :
       (reqs[s].pc = "updateStatus" /\ reqs'[s].pc = "statusHistory")
         => reqs[s].oldStatus = reports[reqs[s].id].status]_vars

(***************************************************************************)
(* Log writes that fail.                                                   *)
(***************************************************************************)
\* The step answers a request served step by step, which had written its
\* entities and was writing its log entries.
AnsweredWhileLogging ==
  \E s \in Slots : reqs[s].pc \in LogPcs /\ reqs'[s].pc = "done"

\* The step is a whole request that wrote an entity.
WroteEntities == now' # now /\ entities' # entities

\* C15: a change-status, assignment, accept-bid, moderate, review-proof or
\* block request whose entity writes succeeded is answered with success, also
\* when a write of its history or audit entry fails, and the entity write
\* stays.
C15_LogFailureKeepsSuccess ==
  [][(last'.op \in JustifiedOps /\ (WroteEntities \/ AnsweredWhileLogging))
       => last'.code = 200]_vars

\* The requests that write reports, bids, assignments or proofs.
TrailOps == {"changeStatus", "assign", "acceptBid", "moderate", "reviewProof"}

\* C16: a finished request that changed a report, a bid, an assignment or a
\* proof has left a history entry and an admin log entry, and no request leaves
\* a history entry without its admin log entry.
C16_TrailComplete ==
  [][/\ (last'.op \in TrailOps /\ WroteEntities)
          => (history' # history /\ adminLog' # adminLog)
     /\ (last'.op \in TrailOps /\ now' # now /\ history' # history)
          => adminLog' # adminLog
     /\ (last'.op \in TrailOps /\ AnsweredWhileLogging) => last'.code = 200]_vars

(***************************************************************************)
(* Requests that are refused.                                              *)
(***************************************************************************)
\* C17: a privileged request answered with a validation error, a not-found
\* error or a conflict error has changed no report, bid, assignment,
\* contractor, proof, history entry or audit entry.
C17_RefusedMutatesNothing ==
  [][(now' # now /\ last'.code \in {400, 404, 409}) => UNCHANGED store]_vars

\* A bid of another report was refused after an earlier request had gone
\* through.
C17_Witness ==
  /\ last.op = "acceptBid" /\ last.code = 400 /\ last.error = "BID_MISMATCH"
  /\ adminLog # <<>>

(***************************************************************************)
(* Roles.                                                                  *)
(***************************************************************************)
RequiredRoles(op) ==
  IF op = "block" THEN {"ADMIN", "SUPERADMIN"} ELSE {"ADMIN", "MODERATOR"}

\* C18: a change-status, assignment, accept-bid, moderate or review-proof
\* request from a caller who is not ADMIN or MODERATOR, and a block or unblock
\* request from a caller who is not ADMIN or SUPERADMIN (callers without a valid
\* credential included), is answered 401 or 403 and changes nothing; the
\* handlers run, and the store changes, only for a caller with a required role.
C18_RoleGate ==
  [][/\ (now' # now /\ last'.op \in JustifiedOps)
          => IF RoleOf(last'.user) \in RequiredRoles(last'.op)
               THEN last'.code \notin {401, 403}
               ELSE last'.code \in {401, 403} /\ UNCHANGED store
     /\ \A s \in Slots :
          InFlight(s)' => RoleOf(reqs'[s].user) \in RequiredRoles(reqs'[s].op)]_vars

\* A moderator was refused the unblocking of a contractor that a super admin
\* had blocked.
C18_Witness ==
  /\ last.op = "block" /\ last.user = "moderator" /\ last.code = 403
  /\ contractors[last.id].isBlocked
  /\ contractors[last.id].blockedBy = "superAdmin"

C21_BlockCascades ==
  [][(/\ now' # now
      /\ last'.op = "block" /\ last'.code = 200 /\ last'.target = "BLOCKED")
     => /\ contractors'[last'.id].isBlocked
        /\ DOMAIN assignments' = DOMAIN assignments
        /\ \A a \in DOMAIN assignments :
             (/\ assignments[a].contractorId = last'.id
              /\ assignments[a].status \in {"ASSIGNED", "IN_PROGRESS"})
               => /\ assignments'[a].status = "CANCELLED"
                  /\ assignments'[a].cancelReason # None
        /\ AppendsOne(adminLog, adminLog')
        /\ Last(adminLog').entityType = "CONTRACTOR"
        /\ Last(adminLog').actionType = "BLOCKED"
        /\ Last(adminLog').entityId = last'.id]_vars

\* A contractor with an open assignment was blocked: its assignment is
\* cancelled with the reason, the other contractor's assignment stays.
C21_Witness ==
  /\ last.op = "block" /\ last.code = 200 /\ last.target = "BLOCKED"
  /\ contractors[last.id].isBlocked
  /\ \E a, c \in DOMAIN assignments :
       /\ assignments[a].contractorId = last.id
       /\ assignments[a].status = "CANCELLED"
       /\ assignments[a].cancelReason # None
       /\ assignments[c].contractorId # last.id
       /\ assignments[c].status = "ASSIGNED"
  /\ Last(adminLog).actionType = "BLOCKED"

(***************************************************************************)
(* The citizen's edit and the deletion of a report.                        *)
(***************************************************************************)
EditableFields(r) == <<r.title, r.description, r.severity>>

C23_DeleteOnlyOpen ==
  [][/\ \A r \in AllReportIds :
          (reports[r].exists /\ ~reports'[r].exists) => reports[r].status = "OPEN"
     /\ (/\ now' # now /\ last'.op = "deleteReport"
         /\ reports[last'.id].exists /\ reports[last'.id].status # "OPEN")
          => last'.code # 200 /\ reports'[last'.id] = reports[last'.id]]_vars

(***************************************************************************)
(* The log tables are append-only.                                         *)
(***************************************************************************)
IsPrefix(q, r) == Len(q) <= Len(r) /\ SubSeq(r, 1, Len(q)) = q
HistoryOf(h, id) == SelectSeq(h, LAMBDA e : e.reportId = id)

\* C24: in every step the admin log and the audit log keep the entries they
\* had, unchanged and in place, and so does the history of every report that
\* exists after the step; entries are only added at the end.
C24_LogsAppendOnly ==
  [][/\ IsPrefix(adminLog, adminLog')
     /\ IsPrefix(auditLog, auditLog')
     /\ \A r \in AllReportIds :
          reports'[r].exists
            => IsPrefix(HistoryOf(history, r), HistoryOf(history', r))]_vars

\* A report that was filed, edited by its reporter and validated has the
\* three history rows in that order, and the edit and the status change have
\* their audit and admin log entries.
C24_Witness ==
  \E r \in AllReportIds :
    /\ reports[r].exists
    /\ Len(HistoryOf(history, r)) = 3
    /\ HistoryOf(history, r)[1].action = "REPORT_CREATED"
    /\ HistoryOf(history, r)[2].action = "REPORT_UPDATED"
    /\ HistoryOf(history, r)[3].action = "STATUS_CHANGED"
    /\ auditLog # <<>> /\ adminLog # <<>>

(***************************************************************************)
(* Terminal statuses.                                                      *)
(***************************************************************************)
TerminalStatuses == {"CLOSED", "REJECTED", "AUTO_CLOSED", "VERIFIED"}

\* C25: once a report is CLOSED, REJECTED, AUTO_CLOSED or VERIFIED its status
\* never changes again, and every change-status request on it is answered
\* with an error.
C25_TerminalStatusesStay ==
  [][/\ \A r \in AllReportIds :
          (reports[r].exists /\ reports[r].status \in TerminalStatuses)
            => reports'[r].status = reports[r].status
     /\ (/\ now' # now /\ last'.op = "changeStatus"
         /\ reports[last'.id].exists
         /\ reports[last'.id].status \in TerminalStatuses)
          => last'.code # 200]_vars

(***************************************************************************)
(* Moderation.                                                             *)
(***************************************************************************)
\* The step is a moderate (POST) request with the given action that was
\* answered with success.
Moderated(action) ==
  /\ now' # now
  /\ last'.op = "moderate" /\ last'.code = 200
  /\ AppendsOne(modActions, modActions')
  /\ Last(modActions').action = action

\* C26: a successful moderate request with action MARK_DUPLICATE on report X
\* has set X to DUPLICATE with duplicateOfId naming an existing report Y other
\* than X, and has raised the duplicate counter of Y by exactly one.
C26_MarkDuplicateCounts ==
  [][Moderated("MARK_DUPLICATE") =>
       \E y \in AllReportIds :
         /\ y # last'.id
         /\ reports[y].exists
         /\ reports'[last'.id].status = "DUPLICATE"
         /\ reports'[last'.id].duplicateOfId = y
         /\ reports'[y].noOfDuplicates = reports[y].noOfDuplicates + 1]_vars

\* The step is an escalate request answered with success.
Escalated == now' # now /\ last'.op = "escalate" /\ last'.code = 200

Flags(r) == <<r.isSpam, r.isSensitive, r.isDuplicate, r.duplicateOfId>>

\* C27: a successful escalation of a report of severity s, by the escalate
\* route or by moderate (POST) with action ESCALATE, sets the severity to
\* min(s + 1, 5) and leaves the status and the flags of the report and the
\* assignments as they were.
C27_EscalateRaisesSeverity ==
  [][(Escalated \/ Moderated("ESCALATE")) =>
       /\ reports'[last'.id].severity =
            Min(reports[last'.id].severity + 1, MaxSeverity)
       /\ reports'[last'.id].status = reports[last'.id].status
       /\ Flags(reports'[last'.id]) = Flags(reports[last'.id])
       /\ UNCHANGED assignments]_vars

ModerationOps == {"moderate", "moderatePatch", "escalate"}

\* The step has appended a moderator action, a history entry and an audit
\* entry (a row of the admin log or of the audit log) for report id.
ThreeRecords(id) ==
  /\ AppendsOne(modActions, modActions') /\ Last(modActions').reportId = id
  /\ AppendsOne(history, history') /\ Last(history').reportId = id
  /\ \/ AppendsOne(adminLog, adminLog') /\ Last(adminLog').entityId = id
     \/ AppendsOne(auditLog, auditLog') /\ Last(auditLog').entityId = id

\* C29: every moderate (POST), moderate (PATCH) or escalate request answered
\* with success has appended one moderator action, one history entry and one
\* audit entry for the report, and none of these requests changes the flags,
\* the severity or the duplicate relation of a report without the three.
C29_ModerationThreeRecords ==
  [][(now' # now /\ last'.op \in ModerationOps) =>
       /\ last'.code = 200 => ThreeRecords(last'.id)
       /\ (\E r \in AllReportIds :
             <<Flags(reports'[r]), reports'[r].severity>>
               # <<Flags(reports[r]), reports[r].severity>>)
            => ThreeRecords(last'.id)]_vars

(***************************************************************************)
(* The review of a completion proof.                                       *)
(***************************************************************************)
\* The step is a review request with the given verdict, answered with success.
Reviewed(verdict) ==
  /\ now' # now
  /\ last'.op = "reviewProof" /\ last'.code = 200 /\ last'.target = verdict

AssignmentOf(p) == proofs[p].assignmentId
ReportOf(p) == assignments[AssignmentOf(p)].reportId

\* C28: a successful review of a proof changes the status of the proof's
\* assignment and of its report exactly when it approves: an approval makes
\* the proof APPROVED, the assignment COMPLETED and the report COMPLETED with
\* completedAt set; a rejection makes the proof REJECTED and leaves the two
\* statuses as they were; either appends exactly one history entry, of the
\* report, and exactly one admin log entry, of entity type PROOF.
C28_ReviewProof ==
  [][(Reviewed("APPROVED") \/ Reviewed("REJECTED")) =>
       LET p == last'.id
       IN  /\ Reviewed("APPROVED") =>
                /\ proofs'[p].status = "APPROVED"
                /\ assignments'[AssignmentOf(p)].status = "COMPLETED"
                /\ reports'[ReportOf(p)].status = "COMPLETED"
                /\ reports'[ReportOf(p)].completedAt # 0
           /\ Reviewed("REJECTED") =>
                /\ proofs'[p].status = "REJECTED"
                /\ \A r \in AllReportIds : reports'[r].status = reports[r].status
                /\ \A a \in DOMAIN assignments :
                     assignments'[a].status = assignments[a].status
           /\ AppendsOne(history, history')
           /\ Last(history').reportId = ReportOf(p)
           /\ AppendsOne(adminLog, adminLog')
           /\ Last(adminLog').entityType = "PROOF"
           /\ Last(adminLog').entityId = p]_vars

\* A first proof was rejected and a second proof of the assignment approved:
\* the assignment and its report are COMPLETED.
C28_Witness ==
  /\ last.op = "reviewProof" /\ last.code = 200 /\ last.target = "APPROVED"
  /\ proofs[last.id].status = "APPROVED"
  /\ \E q \in DOMAIN proofs :
       /\ proofs[q].status = "REJECTED"
       /\ proofs[q].assignmentId = proofs[last.id].assignmentId
  /\ assignments[proofs[last.id].assignmentId].status = "COMPLETED"
  /\ reports[assignments[proofs[last.id].assignmentId].reportId].status = "COMPLETED"

(***************************************************************************)
(* The priority score.                                                     *)
(***************************************************************************)
Score(r) ==
  reports[r].severity * 20 + reports[r].upvotes * 2
    + Cardinality(reports[r].subscribedBy) * 5

\* The step is an admin listing or an admin detail view answered with data.
Viewed == now' # now /\ last'.op \in {"listReports", "getReport"} /\ last'.code = 200

\* C30: the priority score that the admin listing and the admin detail view
\* return for a report is severity * 20 + upvotes * 2 + subscribers * 5 of
\* the report as stored; the listing scores each report it found, the detail
\* view the report asked for; neither view changes the store, and a detail
\* view right after a listing returns the listing's score of the report.
C30_PriorityScore ==
  [][/\ Viewed =>
          /\ UNCHANGED store
          /\ \A r \in DOMAIN last'.scores : last'.scores[r] = Score(r)
          /\ last'.op = "getReport" => DOMAIN last'.scores = {last'.id}
          /\ last'.op = "listReports" =>
               \A r \in AllReportIds :
                 (reports[r].exists /\ reports[r].status = "OPEN")
                   => r \in DOMAIN last'.scores
     /\ (/\ Viewed /\ last'.op = "getReport"
         /\ last.op = "listReports" /\ last.code = 200
         /\ last'.id \in DOMAIN last.scores)
          => last'.scores[last'.id] = last.scores[last'.id]]_vars

\* The detail view of a report of severity 4 with 3 upvotes and 2
\* subscribers returned 96.
C30_Witness ==
  /\ last.op = "getReport" /\ last.code = 200
  /\ reports[last.id].severity = 4
  /\ reports[last.id].upvotes = 3
  /\ Cardinality(reports[last.id].subscribedBy) = 2
  /\ last.scores[last.id] = 96

(***************************************************************************)
(* The urgency score.                                                      *)
(***************************************************************************)
UrgencySum(report, ageInDays) ==
  report.severity
    + (IF ageInDays < 1 THEN 5 ELSE IF ageInDays < 3 THEN 3
       ELSE IF ageInDays < 7 THEN 1 ELSE 0)
    + (IF report.status = "OPEN" THEN 3
       ELSE IF report.status = "VALIDATED" THEN 2 ELSE 0)
    + Min(report.upvotes, 5)

\* C31: the urgency score a ward listing returns for a report is its
\* severity, plus 5, 3, 1 or 0 for an age under 1, under 3, under 7 days or
\* more, plus 3 for OPEN, 2 for VALIDATED and 0 for any other status, plus
\* its upvotes up to 5; the value is always between 0 and 100, and the
\* listing changes nothing in the store.
C31_UrgencyScore ==
  [][(now' # now /\ last'.op = "wardReports" /\ last'.code = 200) =>
       /\ UNCHANGED store
       /\ \A r \in DOMAIN last'.scores :
            /\ last'.scores[r] = UrgencySum(reports[r], last'.ages[r])
            /\ last'.scores[r] \in 0..100]_vars

(***************************************************************************)
(* The assignment of an accepted bid.                                      *)
(***************************************************************************)
AcceptBidSucceeded == Quiet /\ last.op = "acceptBid" /\ last.code = 200

\* The rows of a log written for the latest request.
BidHistoryRows ==
  {i \in DOMAIN history :
     /\ history[i].reportId = last.id
     /\ history[i].action = "BID_ASSIGNED"
     /\ history[i].createdAt = now}
BidAuditRows == {i \in DOMAIN adminLog : adminLog[i].entityId = last.bidId
                                          /\ adminLog[i].entityType = "BID"}

C33_UpvotesMatchReactions ==
  \A r \in AllReportIds :
    reports[r].exists => reports[r].upvotes = Cardinality(reports[r].upvotedBy)

(***************************************************************************)
(* Blocked contractors.                                                    *)
(***************************************************************************)
\* C34: no step creates an assignment for a contractor that is blocked when
\* the step is taken: a direct assignment naming a blocked contractor, and
\* the acceptance of a blocked contractor's bid, create nothing.
C34_NoAssignmentWhileBlocked ==
  [][\A a \in DOMAIN assignments' :
       a \notin DOMAIN assignments
         => ~contractors[assignments'[a].contractorId].isBlocked]_vars

(***************************************************************************)
(* Reviewed proofs.                                                        *)
(***************************************************************************)
\* C35: the decision on a proof is final: no step changes the status of a
\* proof that is APPROVED or REJECTED, so the proof whose approval completed
\* a report stays APPROVED.
C35_ReviewDecisionFinal ==
  [][\A p \in DOMAIN proofs :
       proofs[p].status \in {"APPROVED", "REJECTED"}
         => proofs'[p].status = proofs[p].status]_vars

(***************************************************************************)
(* Assignments that have ended.                                            *)
(***************************************************************************)
\* C36: CANCELLED and COMPLETED are final for an assignment: no step changes
\* the status of an assignment that has one of them, and no step completes
\* the report of a cancelled assignment through it.
C36_EndedAssignmentsStay ==
  [][\A a \in DOMAIN assignments :
       assignments[a].status \in {"CANCELLED", "COMPLETED"}
         => assignments'[a].status = assignments[a].status]_vars

(***************************************************************************)
(* What a block leaves alone.                                              *)
(***************************************************************************)
BlockServed == now' # now /\ last'.op = "block"

\* C38: a block or unblock request for a contractor changes, besides the
\* contractor's own block fields, only the status and the cancellation
\* reason of that contractor's ASSIGNED and IN_PROGRESS assignments, and
\* these only when blocking: every report, bid and proof, every other
\* contractor, every assignment of another contractor and every COMPLETED
\* or CANCELLED assignment stay as they are, so an unblock restores no
\* cancelled assignment.
C38_BlockFrame ==
  [][BlockServed =>
       /\ reports' = reports /\ bids' = bids /\ proofs' = proofs
       /\ \A c \in ContractorIds : c # last'.id => contractors'[c] = contractors[c]
       /\ DOMAIN assignments' = DOMAIN assignments
       /\ \A a \in DOMAIN assignments :
            /\ (\/ assignments[a].contractorId # last'.id
                \/ assignments[a].status \in {"COMPLETED", "CANCELLED"}
                \/ last'.target = "UNBLOCKED")
                 => assignments'[a] = assignments[a]
            /\ [assignments'[a] EXCEPT
                  !.status = assignments[a].status,
                  !.cancelReason = assignments[a].cancelReason] = assignments[a]]_vars

\* A contractor was blocked after its assignment was completed: the
\* assignment and its report are COMPLETED.
C38_Witness ==
  /\ last.op = "block" /\ last.code = 200 /\ last.target = "BLOCKED"
  /\ contractors[last.id].isBlocked
  /\ \E a \in DOMAIN assignments :
       /\ assignments[a].contractorId = last.id
       /\ assignments[a].status = "COMPLETED"
       /\ reports[assignments[a].reportId].status = "COMPLETED"

(***************************************************************************)
(* The status of a bid.                                                    *)
(***************************************************************************)
\* C37: the status of a bid only moves forward from PENDING: no step turns a
\* REJECTED bid into an ACCEPTED one or an ACCEPTED bid into a REJECTED one,
\* and only a PENDING bid is accepted.
C37_BidStatusForward ==
  [][\A b \in BidIds :
       /\ bids[b].status = "REJECTED" => bids'[b].status = "REJECTED"
       /\ bids[b].status = "ACCEPTED" => bids'[b].status = "ACCEPTED"]_vars

(***************************************************************************)
(* The answer to a create-report request.                                  *)
(***************************************************************************)
\* C39: a create-report request is answered with an error only when it has
\* stored nothing: a request that has stored a new report and its
\* REPORT_CREATED history entry is answered with success.
C39_CreateErrorStoresNothing ==
  [][(now' # now /\ last'.op = "createReport" /\ last'.code >= 400)
       => reports' = reports /\ history' = history]_vars

(***************************************************************************)
(* The duplicate counter.                                                  *)
(***************************************************************************)
DuplicatesOf(r) ==
  {q \in AllReportIds : reports[q].exists /\ reports[q].duplicateOfId = r}

\* C40: the duplicate counter of every report is the number of reports
\* whose duplicateOfId refers to it, whatever sequence of duplicate markings
\* (the duplicate route, moderate with MARK_DUPLICATE) and status changes
\* led to the state.
C40_DuplicateCounter ==
  \A r \in AllReportIds :
    reports[r].exists => reports[r].noOfDuplicates = Cardinality(DuplicatesOf(r))

====
